---- MODULE Spec2Model ----
(***************************************************************************)
(* Verification model of determinisk-core: the Q16.16 scalar layer, the    *)
(* Verlet world step, the broad-phase spatial grid, the narrow phase and   *)
(* the impulse resolver.  Scalars are carried as their 32-bit signed       *)
(* encodings; every operator computes on encodings exactly as the source   *)
(* does (release build: wrapping on overflow).                             *)
(***************************************************************************)
EXTENDS Integers, Sequences, FiniteSets, TLC

-----------------------------------------------------------------------------
(* math/scalar.rs : Scalar(I16F16)                                         *)

MaxI32 == 2147483647
MinI32 == (-2147483647) - 1

ZERO == 0
ONE == 65536
TWO == 131072
HALF == 32768

\* The 32-bit signed value of the bit pattern h * 2^16 + l, 0 <= h, l < 2^16.
FromBits(h, l) == IF h >= 32768 THEN (h - 65536) * 65536 + l ELSE h * 65536 + l

\* The truncation "as i32" of the wider intermediate hi * 2^16 + lo (lo >= 0).
FromLimbs(hi, lo) == FromBits((hi + (lo \div 65536)) % 65536, lo % 65536)

\* impl Add for Scalar: 32-bit addition of the encodings, wrapping.
ScalarAdd(a, b) ==
    IF a >= 0 /\ b >= 0 /\ a > MaxI32 - b THEN (a + MinI32) + (b + MinI32)
    ELSE IF a < 0 /\ b < 0 /\ a < MinI32 - b THEN (a - MinI32) + (b - MinI32)
    ELSE a + b

\* impl Sub for Scalar: 32-bit subtraction of the encodings, wrapping.
ScalarSub(a, b) ==
    IF a >= 0 /\ b < 0 /\ a > MaxI32 + b THEN (a + MinI32) - (b - MinI32)
    ELSE IF a < 0 /\ b > 0 /\ a < MinI32 + b THEN (a - MinI32) - (b + MinI32)
    ELSE a - b

\* impl Neg for Scalar.
ScalarNeg(a) == IF a = MinI32 THEN MinI32 ELSE -a

\* Scalar::abs (abs of the minimum encoding wraps to itself).
ScalarAbs(a) == IF a = MinI32 THEN MinI32 ELSE IF a < 0 THEN -a ELSE a

\* floor(al * bl / 2^16) for two 16-bit unsigned limbs given in 8-bit pieces.
MulBytes(a1, a0, b1, b0) ==
    a1 * b1 + (((a1 * b0 + a0 * b1) * 256 + a0 * b0) \div 65536)

\* The product of two encodings given as a signed high and an unsigned low
\* 16-bit limb each: 64-bit product, arithmetic shift right by 16, low 32 bits.
MulLimbs(ah, al, bh, bl) ==
    FromLimbs(((ah * bh) % 65536) + ((ah * bl) \div 65536) + ((al * bh) \div 65536),
              ((ah * bl) % 65536) + ((al * bh) % 65536)
                  + MulBytes(al \div 256, al % 256, bl \div 256, bl % 256))

\* impl Mul for Scalar.
ScalarMul(a, b) == MulLimbs(a \div 65536, a % 65536, b \div 65536, b % 65536)

\* The n low quotient bits of (r * 2^n) / ub for 0 <= r < ub, by long division
\* in chunks that keep every intermediate below 2^31.
RECURSIVE FracBits(_, _, _)
FracBits(r, ub, n) ==
    IF n = 0 THEN 0
    ELSE IF ub <= 32767 /\ n >= 16
         THEN ((r * 65536) \div ub) * (2 ^ (n - 16))
                  + FracBits((r * 65536) % ub, ub, n - 16)
    ELSE IF ub <= 8388607 /\ n >= 8
         THEN ((r * 256) \div ub) * (2 ^ (n - 8))
                  + FracBits((r * 256) % ub, ub, n - 8)
    ELSE IF r >= ub - r
         THEN 2 ^ (n - 1) + FracBits(r - (ub - r), ub, n - 1)
         ELSE FracBits(r + r, ub, n - 1)

\* |a| div ub and |a| mod ub (|MinI32| = 2^31 is taken as MaxI32 + 1).
MagQuot(a, ub) ==
    IF a = MinI32
    THEN (MaxI32 \div ub) + (IF (MaxI32 % ub) + 1 = ub THEN 1 ELSE 0)
    ELSE (IF a < 0 THEN -a ELSE a) \div ub

MagRem(a, ub) ==
    IF a = MinI32
    THEN (IF (MaxI32 % ub) + 1 = ub THEN 0 ELSE (MaxI32 % ub) + 1)
    ELSE (IF a < 0 THEN -a ELSE a) % ub

\* The low 32 bits of the quotient of magnitude h * 2^16 + f, negated if neg.
SignedQuot(neg, h, f) ==
    IF ~neg THEN FromBits(h, f)
    ELSE IF f = 0 THEN FromBits((65536 - h) % 65536, 0)
    ELSE FromBits(65535 - h, 65536 - f)

\* (a << 16) / b for a divisor of magnitude ub = |b| < 2^31.
DivMag(a, b, ub) ==
    SignedQuot((a < 0) # (b < 0), MagQuot(a, ub) % 65536,
               FracBits(MagRem(a, ub), ub, 16))

\* Div without the shift of the dividend: the quotient of the encodings,
\* truncated toward zero.
ScalarDivUnshifted(a, b) ==
    IF b = 0 \/ a = MinI32 \/ b = MinI32 THEN 0
    ELSE IF (a < 0) # (b < 0)
         THEN -((IF a < 0 THEN -a ELSE a) \div (IF b < 0 THEN -b ELSE b))
         ELSE (IF a < 0 THEN -a ELSE a) \div (IF b < 0 THEN -b ELSE b)

\* impl Div for Scalar: (a << 16) / b on 64 bits, truncated toward zero, the
\* quotient truncated to 32 bits.  Division by zero panics in the source; the
\* operator is total (0) and the panic is tracked by the ...Panics predicates.
ScalarDiv(a, b) ==
    IF b = 0 THEN 0
    ELSE IF b = MinI32
         THEN IF a = MinI32 THEN 65536
              ELSE IF a >= 0 THEN -(a \div 32768) ELSE (-a) \div 32768
    ELSE DivMag(a, b, IF b < 0 THEN -b ELSE b)

\* Number of Newton-Raphson iterations in Scalar::sqrt (for _ in 0..8).
SqrtIterations == 8

\* One iteration of the loop of Scalar::sqrt, n iterations left (n > 0), and
\* its exit test on the iterate next.
RECURSIVE SqrtLoop(_, _, _)
RECURSIVE SqrtTest(_, _, _, _)
SqrtLoop(x, guess, n) ==
    IF n = 0 THEN guess
    ELSE SqrtTest(x, guess, ScalarDiv(ScalarAdd(guess, ScalarDiv(x, guess)), TWO), n)

SqrtTest(x, guess, next, n) ==
    IF ScalarAbs(ScalarSub(next, guess)) < 1 THEN guess
    ELSE SqrtLoop(x, next, n - 1)

\* Scalar::sqrt.
ScalarSqrt(x) == IF x <= 0 THEN ZERO ELSE SqrtLoop(x, x \div 2, SqrtIterations)

\* Whether the loop of Scalar::sqrt divides by a zero guess (`*self / guess`).
RECURSIVE SqrtLoopPanics(_, _, _)
RECURSIVE SqrtTestPanics(_, _, _, _)
SqrtLoopPanics(x, guess, n) ==
    IF n = 0 THEN FALSE
    ELSE IF guess = 0 THEN TRUE
    ELSE SqrtTestPanics(x, guess,
                        ScalarDiv(ScalarAdd(guess, ScalarDiv(x, guess)), TWO), n)

SqrtTestPanics(x, guess, next, n) ==
    IF ScalarAbs(ScalarSub(next, guess)) < 1 THEN FALSE
    ELSE SqrtLoopPanics(x, next, n - 1)

\* Whether Scalar::sqrt panics on x.
SqrtPanics(x) == x > 0 /\ SqrtLoopPanics(x, x \div 2, SqrtIterations)

-----------------------------------------------------------------------------
(* math/vec2.rs : Vec2 { x, y }                                            *)

Vec2(x, y) == [x |-> x, y |-> y]

VecZERO == Vec2(ZERO, ZERO)

Vec2Add(a, b) == Vec2(ScalarAdd(a.x, b.x), ScalarAdd(a.y, b.y))

Vec2Sub(a, b) == Vec2(ScalarSub(a.x, b.x), ScalarSub(a.y, b.y))

Vec2Mul(a, s) == Vec2(ScalarMul(a.x, s), ScalarMul(a.y, s))

Vec2Div(a, s) == Vec2(ScalarDiv(a.x, s), ScalarDiv(a.y, s))

Vec2Neg(a) == Vec2(ScalarNeg(a.x), ScalarNeg(a.y))

\* Vec2::dot: both products first, then the sum.
Dot(a, b) == ScalarAdd(ScalarMul(a.x, b.x), ScalarMul(a.y, b.y))

\* Vec2::length_squared, called by detect_collisions; not defined in
\* math/vec2.rs, modelled as the squared distance dot(delta, delta).
LengthSquared(a) == Dot(a, a)

\* Scalar::to_int, called by the spatial grid; not defined in math/scalar.rs,
\* modelled as truncation of the encoding toward zero.
ToInt(a) ==
    IF a = MinI32 THEN -32768
    ELSE IF a < 0 THEN -((-a) \div 65536) ELSE a \div 65536

-----------------------------------------------------------------------------
(* Encodings produced by Scalar::from_float on the literals of the source. *)

\* Scalar::from_float(0.5), Circle::new restitution
CircleRestitution == 32768
\* Scalar::from_float(0.1), Circle::new friction
CircleFriction == 6554
\* Scalar::from_float(-9.81), World::new gravity.y
DefaultGravityY == -642908
\* Scalar::from_float(1.0 / 60.0), World::new timestep
DefaultTimestep == 1092
\* Scalar::from_float(0.8), CollisionConfig::default restitution
DefaultRestitution == 52429
\* Scalar::from_float(0.4), CollisionConfig::default position_correction
DefaultPositionCorrection == 26214
\* Scalar::from_float(0.01), CollisionConfig::default velocity_threshold
DefaultVelocityThreshold == 655
\* Scalar::from_float(0.8), default_position_correction of SimulationInput
InputPositionCorrection == 52429

-----------------------------------------------------------------------------
(* physics/circle.rs, physics/collision.rs : data                          *)

\* Circle::new
CircleNew(position, radius, mass) ==
    [position |-> position, old_position |-> position, velocity |-> VecZERO,
     radius |-> radius, mass |-> mass,
     restitution |-> CircleRestitution, friction |-> CircleFriction]

\* Circle::set_velocity: only old_position is written.
SetVelocity(c, velocity, dt) ==
    [c EXCEPT !.old_position = Vec2Sub(c.position, Vec2Mul(velocity, dt))]

\* impl Default for CollisionConfig
CollisionConfigDefault ==
    [restitution |-> DefaultRestitution,
     position_correction |-> DefaultPositionCorrection,
     velocity_threshold |-> DefaultVelocityThreshold]

-----------------------------------------------------------------------------
(* spatial/mod.rs : SpatialGrid (broad phase)                              *)

\* A GridCell is the pair <<x, y>>; derive(Ord) orders cells by x, then y.
CellLess(c, d) == c[1] < d[1] \/ (c[1] = d[1] /\ c[2] < d[2])

\* SpatialGrid::position_to_cell
PositionToCell(pos, cell_size) ==
    <<ToInt(ScalarDiv(pos.x, cell_size)), ToInt(ScalarDiv(pos.y, cell_size))>>

\* SpatialGrid::get_overlapping_cells: the cells of the bounding box, x outer
\* loop, y inner loop (an empty range when min > max).
GetOverlappingCells(center, radius, cell_size) ==
    LET min_x == ToInt(ScalarDiv(ScalarSub(center.x, radius), cell_size))
        max_x == ToInt(ScalarDiv(ScalarAdd(center.x, radius), cell_size))
        min_y == ToInt(ScalarDiv(ScalarSub(center.y, radius), cell_size))
        max_y == ToInt(ScalarDiv(ScalarAdd(center.y, radius), cell_size))
        nx    == IF max_x >= min_x THEN max_x - min_x + 1 ELSE 0
        ny    == IF max_y >= min_y THEN max_y - min_y + 1 ELSE 0
    IN  [k \in 1..(nx * ny) |-> <<min_x + ((k - 1) \div ny), min_y + ((k - 1) % ny)>>]

\* cells.entry(cell).or_insert_with(Vec::new).push(idx)
GridPush(cells, cell, idx) ==
    IF cell \in DOMAIN cells THEN [cells EXCEPT ![cell] = Append(@, idx)]
    ELSE (cell :> <<idx>>) @@ cells

\* The inner loop of SpatialGrid::build over the neighbours of one circle.
RECURSIVE PushNeighbors(_, _, _, _, _)
PushNeighbors(cells, neighbors, k, cell, idx) ==
    IF k > Len(neighbors) THEN cells
    ELSE PushNeighbors(IF neighbors[k] # cell THEN GridPush(cells, neighbors[k], idx)
                                              ELSE cells,
                       neighbors, k + 1, cell, idx)

\* The outer loop of SpatialGrid::build from circle idx on.
RECURSIVE BuildFrom(_, _, _, _)
BuildFrom(cells, circles, idx, cell_size) ==
    IF idx > Len(circles) THEN cells
    ELSE LET circle == circles[idx]
             cell   == PositionToCell(circle.position, cell_size)
             first  == GridPush(cells, cell, idx)
             neighbors == GetOverlappingCells(circle.position, circle.radius, cell_size)
         IN  BuildFrom(PushNeighbors(first, neighbors, 1, cell, idx),
                       circles, idx + 1, cell_size)

\* SpatialGrid::build: the map cell -> indices (bodies are numbered from 1).
Build(circles, cell_size) == BuildFrom(<<>>, circles, 1, cell_size)

\* The keys of the BTreeMap in iteration order.
RECURSIVE SortedCells(_)
SortedCells(S) ==
    IF S = {} THEN <<>>
    ELSE LET m == CHOOSE c \in S : \A d \in S \ {c} : CellLess(c, d)
         IN  <<m>> \o SortedCells(S \ {m})

\* The (i, j) loops of get_collision_pairs over one cell: the candidate
\* <<idx_a, idx_b>> in loop order.
RECURSIVE PairsInCell(_, _, _)
PairsInCell(indices, i, j) ==
    IF i > Len(indices) THEN <<>>
    ELSE IF j > Len(indices) THEN PairsInCell(indices, i + 1, i + 2)
    ELSE <<<<indices[i], indices[j]>>>> \o PairsInCell(indices, i, j + 1)

\* PairKey with the two indices stored in the order (max_idx, min_idx).
PairKeySwapped(idx_a, idx_b) ==
    IF idx_a < idx_b THEN <<idx_b, idx_a>> ELSE <<idx_a, idx_b>>

\* The key (min_idx, max_idx) of a candidate.
PairKey(idx_a, idx_b) == IF idx_a < idx_b THEN <<idx_a, idx_b>> ELSE <<idx_b, idx_a>>

\* AddPairs without the test of the checked set: every candidate is pushed.
RECURSIVE AddPairsNoDedup(_, _, _)
AddPairsNoDedup(acc, cand, k) ==
    IF k > Len(cand) THEN acc
    ELSE AddPairsNoDedup([pairs |-> Append(acc.pairs, PairKey(cand[k][1], cand[k][2])),
                          checked |-> acc.checked \cup {PairKey(cand[k][1], cand[k][2])}],
                         cand, k + 1)

\* The body of the inner loop of get_collision_pairs on candidates k.. of one
\* cell; acc = [pairs, checked].
RECURSIVE AddPairs(_, _, _)
AddPairs(acc, cand, k) ==
    IF k > Len(cand) THEN acc
    ELSE LET key == PairKey(cand[k][1], cand[k][2])
         IN  AddPairs(IF key \notin acc.checked
                      THEN [pairs |-> Append(acc.pairs, key),
                            checked |-> acc.checked \cup {key}]
                      ELSE acc,
                      cand, k + 1)

\* The loop of get_collision_pairs over the cells in key order.
RECURSIVE PairsOverCells(_, _, _, _)
PairsOverCells(acc, cells, order, k) ==
    IF k > Len(order) THEN acc
    ELSE PairsOverCells(AddPairs(acc, PairsInCell(cells[order[k]], 1, 2), 1),
                        cells, order, k + 1)

\* SpatialGrid::get_collision_pairs
GetCollisionPairs(cells) ==
    PairsOverCells([pairs |-> <<>>, checked |-> {}], cells,
                   SortedCells(DOMAIN cells), 1).pairs

-----------------------------------------------------------------------------
(* spatial/mod.rs : narrow phase and boundary contacts                     *)

\* The body of the loop of detect_collisions for one candidate pair: the
\* contact as a one-element sequence, or none.
DetectPair(circles, pair) ==
    LET circle_a == circles[pair[1]]
        circle_b == circles[pair[2]]
        delta    == Vec2Sub(circle_b.position, circle_a.position)
        dist_sq  == LengthSquared(delta)
        sum_radii == ScalarAdd(circle_a.radius, circle_b.radius)
        sum_radii_sq == ScalarMul(sum_radii, sum_radii)
        dist     == ScalarSqrt(dist_sq)
        normal   == Vec2Div(delta, dist)
    IN  IF dist_sq < sum_radii_sq /\ dist_sq > ZERO
        THEN << [idx_a |-> pair[1], idx_b |-> pair[2], normal |-> normal,
                 depth |-> ScalarSub(sum_radii, dist),
                 contact |-> Vec2Add(circle_a.position,
                                     Vec2Mul(normal, circle_a.radius))] >>
        ELSE <<>>

\* detect_collisions, from candidate k on.
RECURSIVE DetectFrom(_, _, _)
DetectFrom(circles, pairs, k) ==
    IF k > Len(pairs) THEN <<>>
    ELSE DetectPair(circles, pairs[k]) \o DetectFrom(circles, pairs, k + 1)

\* detect_collisions
DetectCollisions(circles, pairs) == DetectFrom(circles, pairs, 1)

\* Whether detect_collisions panics: sqrt divides by a zero guess, or delta is
\* divided by a zero distance.
DetectPanics(circles, pairs) ==
    \E k \in 1..Len(pairs) :
        LET circle_a == circles[pairs[k][1]]
            circle_b == circles[pairs[k][2]]
            delta    == Vec2Sub(circle_b.position, circle_a.position)
            dist_sq  == LengthSquared(delta)
            sum_radii == ScalarAdd(circle_a.radius, circle_b.radius)
        IN  /\ dist_sq < ScalarMul(sum_radii, sum_radii)
            /\ dist_sq > ZERO
            /\ (SqrtPanics(dist_sq) \/ ScalarSqrt(dist_sq) = 0)

\* The four tests of detect_boundary_collisions for circle idx, in the order
\* Left, Right, Bottom, Top.
BoundaryOfCircle(circles, idx, world_width, world_height) ==
    LET pos == circles[idx].position
        radius == circles[idx].radius
    IN  (IF ScalarSub(pos.x, radius) < ZERO
         THEN << [idx |-> idx, boundary |-> "Left",
                  depth |-> ScalarSub(radius, pos.x),
                  contact |-> Vec2(ZERO, pos.y)] >>
         ELSE <<>>)
        \o
        (IF ScalarAdd(pos.x, radius) > world_width
         THEN << [idx |-> idx, boundary |-> "Right",
                  depth |-> ScalarSub(ScalarAdd(pos.x, radius), world_width),
                  contact |-> Vec2(world_width, pos.y)] >>
         ELSE <<>>)
        \o
        (IF ScalarSub(pos.y, radius) < ZERO
         THEN << [idx |-> idx, boundary |-> "Bottom",
                  depth |-> ScalarSub(radius, pos.y),
                  contact |-> Vec2(pos.x, ZERO)] >>
         ELSE <<>>)
        \o
        (IF ScalarAdd(pos.y, radius) > world_height
         THEN << [idx |-> idx, boundary |-> "Top",
                  depth |-> ScalarSub(ScalarAdd(pos.y, radius), world_height),
                  contact |-> Vec2(pos.x, world_height)] >>
         ELSE <<>>)

\* detect_boundary_collisions, from circle idx on.
RECURSIVE BoundaryFrom(_, _, _, _)
BoundaryFrom(circles, idx, world_width, world_height) ==
    IF idx > Len(circles) THEN <<>>
    ELSE BoundaryOfCircle(circles, idx, world_width, world_height)
             \o BoundaryFrom(circles, idx + 1, world_width, world_height)

\* detect_boundary_collisions
DetectBoundaryCollisions(circles, world_width, world_height) ==
    BoundaryFrom(circles, 1, world_width, world_height)

-----------------------------------------------------------------------------
(* physics/collision.rs : impulse resolver                                 *)

\* The body of the loop of resolve_collisions for one contact: no impulse
\* when the bodies separate, else the impulse of idx_a then that of idx_b.
ResolvePair(circles, collision, config) ==
    LET circle_a == circles[collision.idx_a]
        circle_b == circles[collision.idx_b]
        relative_velocity == Vec2Sub(circle_b.velocity, circle_a.velocity)
        velocity_along_normal == Dot(relative_velocity, collision.normal)
        e == IF ScalarAbs(velocity_along_normal) > config.velocity_threshold
             THEN config.restitution ELSE ZERO
        mass_a == circle_a.mass
        mass_b == circle_b.mass
        impulse_scalar ==
            ScalarDiv(ScalarMul(ScalarNeg(ScalarAdd(ONE, e)), velocity_along_normal),
                      ScalarAdd(ScalarDiv(ONE, mass_a), ScalarDiv(ONE, mass_b)))
        impulse == Vec2Mul(collision.normal, impulse_scalar)
        delta_v_a == Vec2Div(Vec2Neg(impulse), mass_a)
        delta_v_b == Vec2Div(impulse, mass_b)
        total_correction == ScalarMul(collision.depth, config.position_correction)
        mass_sum == ScalarAdd(mass_a, mass_b)
        correction_a ==
            Vec2Mul(collision.normal,
                    ScalarDiv(ScalarMul(total_correction, mass_b), mass_sum))
        correction_b ==
            Vec2Mul(Vec2Neg(collision.normal),
                    ScalarDiv(ScalarMul(total_correction, mass_a), mass_sum))
    IN  IF velocity_along_normal > ZERO THEN <<>>
        ELSE << [idx |-> collision.idx_a, delta_v |-> delta_v_a,
                 delta_pos |-> Vec2Neg(correction_a)],
                [idx |-> collision.idx_b, delta_v |-> delta_v_b,
                 delta_pos |-> Vec2Neg(correction_b)] >>

\* resolve_collisions, from contact k on.
RECURSIVE ResolveFrom(_, _, _, _)
ResolveFrom(circles, collisions, config, k) ==
    IF k > Len(collisions) THEN <<>>
    ELSE ResolvePair(circles, collisions[k], config)
             \o ResolveFrom(circles, collisions, config, k + 1)

\* resolve_collisions
ResolveCollisions(circles, collisions, config) ==
    ResolveFrom(circles, collisions, config, 1)

\* Whether resolve_collisions divides by zero (a zero mass, a zero sum of
\* inverse masses, a zero mass sum) on a contact it does not skip.
ResolveCollisionsPanics(circles, collisions) ==
    \E k \in 1..Len(collisions) :
        LET circle_a == circles[collisions[k].idx_a]
            circle_b == circles[collisions[k].idx_b]
            vn == Dot(Vec2Sub(circle_b.velocity, circle_a.velocity),
                      collisions[k].normal)
        IN  /\ ~(vn > ZERO)
            /\ \/ circle_a.mass = 0
               \/ circle_b.mass = 0
               \/ ScalarAdd(ScalarDiv(ONE, circle_a.mass),
                            ScalarDiv(ONE, circle_b.mass)) = 0
               \/ ScalarAdd(circle_a.mass, circle_b.mass) = 0

\* The normal resolve_boundary_collisions gives a boundary.
BoundaryNormal(boundary) ==
    CASE boundary = "Left"   -> Vec2(ONE, ZERO)
      [] boundary = "Right"  -> Vec2(ScalarNeg(ONE), ZERO)
      [] boundary = "Bottom" -> Vec2(ZERO, ONE)
      [] boundary = "Top"    -> Vec2(ZERO, ScalarNeg(ONE))

\* The body of the loop of resolve_boundary_collisions for one contact.
ResolveBoundaryOne(circles, collision, config) ==
    LET circle == circles[collision.idx]
        normal == BoundaryNormal(collision.boundary)
        velocity_along_normal == Dot(circle.velocity, normal)
        e == IF ScalarAbs(velocity_along_normal) > config.velocity_threshold
             THEN config.restitution ELSE ZERO
        impulse_scalar ==
            ScalarMul(ScalarNeg(ScalarAdd(ONE, e)), velocity_along_normal)
        impulse == Vec2Mul(normal, impulse_scalar)
    IN  IF velocity_along_normal > ZERO THEN <<>>
        ELSE << [idx |-> collision.idx,
                 delta_v |-> Vec2Div(impulse, circle.mass),
                 delta_pos |-> Vec2Mul(normal,
                                  ScalarMul(collision.depth,
                                            config.position_correction))] >>

\* resolve_boundary_collisions, from contact k on.
RECURSIVE ResolveBoundaryFrom(_, _, _, _)
ResolveBoundaryFrom(circles, collisions, config, k) ==
    IF k > Len(collisions) THEN <<>>
    ELSE ResolveBoundaryOne(circles, collisions[k], config)
             \o ResolveBoundaryFrom(circles, collisions, config, k + 1)

\* resolve_boundary_collisions
ResolveBoundaryCollisions(circles, collisions, config) ==
    ResolveBoundaryFrom(circles, collisions, config, 1)

\* Whether resolve_boundary_collisions divides an impulse by a zero mass.
ResolveBoundaryPanics(circles, collisions) ==
    \E k \in 1..Len(collisions) :
        /\ ~(Dot(circles[collisions[k].idx].velocity,
                 BoundaryNormal(collisions[k].boundary)) > ZERO)
        /\ circles[collisions[k].idx].mass = 0

\* Vec2 +=, componentwise wrapping addition.
Vec2AddAssign(a, b) == Vec2Add(a, b)

\* The accumulation loop with = in place of +=: the last impulse of a body wins.
RECURSIVE AccumulateLast(_, _, _)
AccumulateLast(impulse_map, impulses, k) ==
    IF k > Len(impulses) THEN impulse_map
    ELSE AccumulateLast(
             [impulse_map EXCEPT ![impulses[k].idx] =
                 << impulses[k].delta_v, impulses[k].delta_pos >>],
             impulses, k + 1)

\* The accumulation loop of apply_impulses: impulse_map after impulses k..
RECURSIVE Accumulate(_, _, _)
Accumulate(impulse_map, impulses, k) ==
    IF k > Len(impulses) THEN impulse_map
    ELSE Accumulate(
             [impulse_map EXCEPT ![impulses[k].idx] =
                 << Vec2AddAssign(@[1], impulses[k].delta_v),
                    Vec2AddAssign(@[2], impulses[k].delta_pos) >>],
             impulses, k + 1)

\* ApplyToCircle with the circle rebuilt field by field, radius and mass
\* taken from each other.
ApplyToCircleSwapped(circle, delta_v, delta_pos) ==
    [circle EXCEPT !.position = Vec2Add(circle.position, delta_pos),
                   !.velocity = Vec2Add(circle.velocity, delta_v),
                   !.radius = circle.mass,
                   !.mass = circle.radius]

\* ApplyToCircle with the position correction scaled by the body's own
\* restitution.
ApplyToCircleDamped(circle, delta_v, delta_pos) ==
    [circle EXCEPT !.position = Vec2Add(circle.position,
                                        Vec2Mul(delta_pos, circle.restitution)),
                   !.velocity = Vec2Add(circle.velocity, delta_v)]

\* The struct update of apply_impulses for one circle.
ApplyToCircle(circle, delta_v, delta_pos) ==
    [circle EXCEPT !.position = Vec2Add(circle.position, delta_pos),
                   !.velocity = Vec2Add(circle.velocity, delta_v)]

\* apply_impulses with the accumulated delta_v also moving the position.
ApplyImpulsesKick(circles, impulses) ==
    LET impulse_map ==
            Accumulate([i \in 1..Len(circles) |-> <<VecZERO, VecZERO>>], impulses, 1)
    IN  [idx \in 1..Len(circles) |->
            ApplyToCircle(circles[idx], impulse_map[idx][1],
                          Vec2Add(impulse_map[idx][2], impulse_map[idx][1]))]

\* apply_impulses
ApplyImpulses(circles, impulses) ==
    LET impulse_map ==
            Accumulate([i \in 1..Len(circles) |-> <<VecZERO, VecZERO>>], impulses, 1)
    IN  [idx \in 1..Len(circles) |->
            ApplyToCircle(circles[idx], impulse_map[idx][1], impulse_map[idx][2])]

\* The largest radius, or Scalar::from_float(1.0) for an empty world.
MaxRadius(circles) ==
    IF Len(circles) = 0 THEN ONE
    ELSE CHOOSE r \in { circles[i].radius : i \in 1..Len(circles) } :
             \A i \in 1..Len(circles) : circles[i].radius <= r

\* cell_size = max_radius * Scalar::from_float(2.0)
CellSize(circles) == ScalarMul(MaxRadius(circles), TWO)

\* The tail of resolve_all_collisions once both impulse lists are known:
\* every intermediate value of the pass, whether a division in it panics, and
\* the circles apply_impulses returns.
ApplyPhase(circles, cells, pairs, circle_collisions, boundary_collisions, pair_impulses, boundary_impulses) ==
    [resolved |-> circles,
     cells |-> cells,
     pairs |-> pairs,
     circle_collisions |-> circle_collisions,
     boundary_collisions |-> boundary_collisions,
     pair_impulses |-> pair_impulses,
     boundary_impulses |-> boundary_impulses,
     panics |-> \/ Len(circles) > 0 /\ CellSize(circles) = 0
                \/ DetectPanics(circles, pairs)
                \/ ResolveCollisionsPanics(circles, circle_collisions)
                \/ ResolveBoundaryPanics(circles, boundary_collisions),
     circles |-> ApplyImpulses(circles, pair_impulses \o boundary_impulses)]

\* resolve_all_collisions from the two contact lists on.
ResolvePhase(circles, config, cells, pairs, circle_collisions, boundary_collisions) ==
    ApplyPhase(circles, cells, pairs, circle_collisions, boundary_collisions,
               ResolveCollisions(circles, circle_collisions, config),
               ResolveBoundaryCollisions(circles, boundary_collisions, config))

\* resolve_all_collisions from the candidate pairs on.
NarrowPhase(circles, world_width, world_height, config, cells, pairs) ==
    ResolvePhase(circles, config, cells, pairs,
                 DetectCollisions(circles, pairs),
                 DetectBoundaryCollisions(circles, world_width, world_height))

\* resolve_all_collisions from the built grid on.
BroadPhase(circles, world_width, world_height, config, cells) ==
    NarrowPhase(circles, world_width, world_height, config, cells,
                GetCollisionPairs(cells))

\* resolve_all_collisions with every intermediate value it computes.
ResolveAllTrace(circles, world_width, world_height, config) ==
    BroadPhase(circles, world_width, world_height, config,
               Build(circles, CellSize(circles)))

\* resolve_all_collisions
ResolveAllCollisions(circles, world_width, world_height, config) ==
    ResolveAllTrace(circles, world_width, world_height, config).circles

-----------------------------------------------------------------------------
(* physics/world.rs : World                                                *)

\* World::new
WorldNew(width, height) ==
    [bounds |-> Vec2(width, height),
     gravity |-> Vec2(ZERO, DefaultGravityY),
     timestep |-> DefaultTimestep,
     circles |-> <<>>,
     collision_config |-> CollisionConfigDefault]

\* World::add_circle
AddCircle(w, circle) == [w EXCEPT !.circles = Append(@, circle)]

\* The loop of World::from_input over input.circles from k on.
RECURSIVE AddInputCircles(_, _, _)
AddInputCircles(w, cfgs, k) ==
    IF k > Len(cfgs) THEN w
    ELSE AddInputCircles(
             AddCircle(w, SetVelocity(CircleNew(cfgs[k].position, cfgs[k].radius,
                                                cfgs[k].mass),
                                      cfgs[k].velocity, w.timestep)),
             cfgs, k + 1)

\* World::from_input
FromInput(inp) ==
    AddInputCircles(
        [WorldNew(inp.world_width, inp.world_height) EXCEPT
            !.gravity = inp.gravity,
            !.timestep = inp.timestep,
            !.collision_config.restitution = inp.restitution,
            !.collision_config.position_correction = inp.position_correction],
        inp.circles, 1)

\* Integrate with old_position taken after position has been overwritten.
IntegrateNoHistory(circle, gravity, timestep) ==
    [circle EXCEPT
        !.position = Vec2Add(Vec2Sub(Vec2Mul(circle.position, TWO), circle.old_position),
                             Vec2Mul(Vec2Mul(gravity, timestep), timestep)),
        !.velocity = Vec2Div(Vec2Sub(Vec2Add(Vec2Sub(Vec2Mul(circle.position, TWO),
                                                     circle.old_position),
                                             Vec2Mul(Vec2Mul(gravity, timestep), timestep)),
                                     circle.old_position), timestep),
        !.old_position = Vec2Add(Vec2Sub(Vec2Mul(circle.position, TWO), circle.old_position),
                                 Vec2Mul(Vec2Mul(gravity, timestep), timestep))]

\* Step 1 of World::step for one circle: Verlet integration.
Integrate(circle, gravity, timestep) ==
    LET current == circle.position
        acceleration == gravity
        position == Vec2Add(Vec2Sub(Vec2Mul(current, TWO), circle.old_position),
                            Vec2Mul(Vec2Mul(acceleration, timestep), timestep))
    IN  [circle EXCEPT
            !.position = position,
            !.velocity = Vec2Div(Vec2Sub(position, circle.old_position), timestep),
            !.old_position = current]

\* Circle velocity refresh of step 3 (and Circle::update_velocity).
UpdateVelocity(circle, dt) ==
    [circle EXCEPT !.velocity = Vec2Div(Vec2Sub(circle.position, circle.old_position), dt)]

\* Step 1 of World::step over all circles.
IntegrateAll(w) ==
    [i \in 1..Len(w.circles) |-> Integrate(w.circles[i], w.gravity, w.timestep)]

\* Step 3 left out: the velocities apply_impulses wrote are kept.
RefreshVelocitiesSkipped(t, dt) ==
    [t EXCEPT !.panics = @ \/ (Len(t.circles) > 0 /\ dt = 0)]

\* Step 3 of World::step on the outcome t of the collision pass; the step
\* panics if the pass does or if a velocity is divided by a zero timestep.
RefreshVelocities(t, dt) ==
    [t EXCEPT !.circles = [i \in 1..Len(t.circles) |-> UpdateVelocity(t.circles[i], dt)],
              !.panics = @ \/ (Len(t.circles) > 0 /\ dt = 0)]

\* World::step with the intermediate values of its collision pass.
StepTrace(w) ==
    RefreshVelocities(ResolveAllTrace(IntegrateAll(w), w.bounds.x, w.bounds.y,
                                      w.collision_config),
                      w.timestep)

\* World::step
StepWorld(w) == [w EXCEPT !.circles = StepTrace(w).circles]

\* Whether World::step panics on a division by zero.
StepPanics(w) == StepTrace(w).panics

\* The serialized World: #[serde(skip)] leaves collision_config out.
ExportWorld(w) ==
    [bounds |-> w.bounds, gravity |-> w.gravity, timestep |-> w.timestep,
     circles |-> w.circles]

\* Deserialization: the skipped field is filled with CollisionConfig::default().
ImportWorld(ser) ==
    [bounds |-> ser.bounds, gravity |-> ser.gravity, timestep |-> ser.timestep,
     circles |-> ser.circles, collision_config |-> CollisionConfigDefault]

-----------------------------------------------------------------------------
(* state/mod.rs : snapshots, metrics and World::run_with_recording         *)

\* The number of bits of a natural number n < 2^31.
RECURSIVE BitLength(_)
BitLength(n) == IF n = 0 THEN 0 ELSE 1 + BitLength(n \div 2)

\* n / 2^k rounded to nearest, ties to even.
RoundShift(n, k) ==
    IF (n % (2 ^ k)) * 2 > 2 ^ k \/ ((n % (2 ^ k)) * 2 = 2 ^ k /\ (n \div (2 ^ k)) % 2 = 1)
    THEN (n \div (2 ^ k)) + 1
    ELSE n \div (2 ^ k)

\* The f32 nearest to magnitude n of k > 24 bits: 24-bit mantissa m, exponent e.
RoundedFloat(neg, m, e) ==
    IF m = 16777216 THEN [m |-> IF neg THEN -8388608 ELSE 8388608, e |-> e + 1]
    ELSE [m |-> IF neg THEN -m ELSE m, e |-> e]

\* Scalar::to_float: the f32 nearest to the Q16.16 value, as the pair m, e
\* standing for m * 2^e / 2^16; exact (e = 0) below 2^24.
ToFloat(a) ==
    IF a = MinI32 THEN [m |-> -8388608, e |-> 8]
    ELSE IF a < 16777216 /\ a > -16777216 THEN [m |-> a, e |-> 0]
    ELSE RoundedFloat(a < 0,
                      RoundShift(IF a < 0 THEN -a ELSE a,
                                 BitLength(IF a < 0 THEN -a ELSE a) - 24),
                      BitLength(IF a < 0 THEN -a ELSE a) - 24)

\* 0.0f32
FloatZero == [m |-> 0, e |-> 0]

\* f32::max on two non-negative floats.
FloatMax(f, g) ==
    IF f.e < g.e \/ (f.e = g.e /\ f.m < g.m) THEN g ELSE f

\* Vec2 to [f32; 2].
ToFloat2(v) == <<ToFloat(v.x), ToFloat(v.y)>>

\* World::detect_collisions (state/mod.rs): the index pairs in contact.
HelperDetectCollisions(w) ==
    [k \in 1..Len(DetectCollisions(w.circles,
                      GetCollisionPairs(Build(w.circles, CellSize(w.circles))))) |->
        << DetectCollisions(w.circles,
               GetCollisionPairs(Build(w.circles, CellSize(w.circles))))[k].idx_a,
           DetectCollisions(w.circles,
               GetCollisionPairs(Build(w.circles, CellSize(w.circles))))[k].idx_b >>]

\* World::detect_boundary_collisions (state/mod.rs): the indices touching a wall.
HelperDetectBoundaryCollisions(w) ==
    [k \in 1..Len(DetectBoundaryCollisions(w.circles, w.bounds.x, w.bounds.y)) |->
        DetectBoundaryCollisions(w.circles, w.bounds.x, w.bounds.y)[k].idx]

\* Whether World::detect_collisions (state/mod.rs) panics on a division by zero.
HelperDetectPanics(w) ==
    \/ Len(w.circles) > 0 /\ CellSize(w.circles) = 0
    \/ DetectPanics(w.circles, GetCollisionPairs(Build(w.circles, CellSize(w.circles))))

\* The CircleState of a circle.
CircleStateOf(c) ==
    [position |-> ToFloat2(c.position), velocity |-> ToFloat2(c.velocity),
     radius |-> ToFloat(c.radius), mass |-> ToFloat(c.mass)]

\* The SimulationState built from the two helper results; time is kept as
\* the two factors of its f32 product.
SnapshotOf(w, step, collisions, boundary_hits) ==
    [step |-> step,
     time |-> <<step, ToFloat(w.timestep)>>,
     circles |-> [i \in 1..Len(w.circles) |-> CircleStateOf(w.circles[i])],
     frame_collisions |-> Len(collisions),
     frame_boundary_hits |-> Len(boundary_hits)]

\* capture_state numbering the snapshots from one.
CaptureStateOneBased(w, step) ==
    SnapshotOf(w, step + 1, HelperDetectCollisions(w), HelperDetectBoundaryCollisions(w))

\* World::capture_state
CaptureState(w, step) ==
    SnapshotOf(w, step, HelperDetectCollisions(w), HelperDetectBoundaryCollisions(w))

\* vx * vx + vy * vy of a circle's velocity.
VSquared(c) ==
    ScalarAdd(ScalarMul(c.velocity.x, c.velocity.x), ScalarMul(c.velocity.y, c.velocity.y))

\* The max_velocity loop of run_with_recording from circle k on.
RECURSIVE UpdateMaxVelocity(_, _, _)
UpdateMaxVelocity(max_velocity, circles, k) ==
    IF k > Len(circles) THEN max_velocity
    ELSE UpdateMaxVelocity(
             IF VSquared(circles[k]) > ZERO
             THEN FloatMax(max_velocity, ToFloat(ScalarSqrt(VSquared(circles[k]))))
             ELSE max_velocity,
             circles, k + 1)

\* Whether the max_velocity loop panics in Scalar::sqrt.
MetricsPanics(w) == \E k \in 1..Len(w.circles) : SqrtPanics(VSquared(w.circles[k]))

\* The loop of World::calculate_total_energy from circle k on.
RECURSIVE EnergyFrom(_, _, _)
EnergyFrom(total, w, k) ==
    IF k > Len(w.circles) THEN total
    ELSE EnergyFrom(
             ScalarAdd(ScalarAdd(total,
                           ScalarMul(ScalarMul(w.circles[k].mass, VSquared(w.circles[k])),
                                     HALF)),
                       ScalarMul(ScalarMul(w.circles[k].mass, ScalarNeg(w.gravity.y)),
                                 w.circles[k].position.y)),
             w, k + 1)

\* calculate_total_energy with the total starting at one.
CalculateTotalEnergyFromOne(w) == EnergyFrom(ONE, w, 1)

\* World::calculate_total_energy
CalculateTotalEnergy(w) == EnergyFrom(ZERO, w, 1)

\* The SimulationInput run_with_recording rebuilds from the world.
RecordedInput(w, num_steps) ==
    [world_width |-> ToFloat(w.bounds.x), world_height |-> ToFloat(w.bounds.y),
     gravity |-> ToFloat2(w.gravity), timestep |-> ToFloat(w.timestep),
     restitution |-> ToFloat(w.collision_config.restitution),
     position_correction |-> ToFloat(w.collision_config.position_correction),
     circles |-> [i \in 1..Len(w.circles) |->
                    [position |-> ToFloat2(w.circles[i].position),
                     velocity |-> ToFloat2(w.circles[i].velocity),
                     radius |-> ToFloat(w.circles[i].radius),
                     mass |-> ToFloat(w.circles[i].mass)]],
     num_steps |-> num_steps]

\* run_with_recording up to the loop: the locals and states[0].
RecordInitial(w, num_steps) ==
    [pc |-> "loop", input |-> RecordedInput(w, num_steps),
     states |-> <<CaptureState(w, 0)>>, max_velocity |-> FloatZero,
     collision_count |-> 0, boundary_hits |-> 0, output |-> <<>>]

\* The body of the loop of run_with_recording after self.step() has made the
\* world w: the snapshot pushed, then the three metrics updated.
RecordStep(r, w, step) ==
    [r EXCEPT !.states = Append(@, CaptureState(w, step)),
              !.max_velocity = UpdateMaxVelocity(@, w.circles, 1),
              !.collision_count = @ + Len(HelperDetectCollisions(w)),
              !.boundary_hits = @ + Len(HelperDetectBoundaryCollisions(w))]

\* run_with_recording after the loop: the SimulationOutput.
RecordOutput(r, w, num_steps) ==
    [r EXCEPT !.pc = "done",
              !.output = [final_state |-> r.states[Len(r.states)],
                          steps_executed |-> num_steps,
                          metrics |-> [total_energy |-> ToFloat(CalculateTotalEnergy(w)),
                                       max_velocity |-> r.max_velocity,
                                       collision_count |-> r.collision_count,
                                       boundary_hits |-> r.boundary_hits]]]

-----------------------------------------------------------------------------
(* Inputs.  A SimulationInput carries the encodings Scalar::from_float gives *)
(* its fields; Q(n, d) is the encoding of the dyadic value n / d.           *)

Q(n, d) == (n * 65536) \div d

\* A CircleConfig.
Body(px, py, vx, vy, radius, mass) ==
    [position |-> Vec2(px, py), velocity |-> Vec2(vx, vy),
     radius |-> radius, mass |-> mass]

\* A SimulationInput (record_trajectory and seed are not read by the core).
SimInput(width, height, gravity, timestep, position_correction, circles, num_steps) ==
    [world_width |-> width, world_height |-> height, gravity |-> gravity,
     timestep |-> timestep, restitution |-> DefaultRestitution,
     position_correction |-> position_correction,
     circles |-> circles, num_steps |-> num_steps]

\* Steps of a short run, and of a free-fall run (the tests step 200 times).
MaxSteps == 3
FallSteps == 200
\* Serialization round trips per run.
MaxResumes == 1

Gravities == { VecZERO, Vec2(ZERO, DefaultGravityY) }
Corrections == { DefaultPositionCorrection, InputPositionCorrection }

\* Two unit-radius bodies on a half-unit lattice around the origin of a
\* 10 x 10 world: overlapping, touching, coincident and apart, in one cell
\* or across cell boundaries, at negative coordinates and across walls.
PairInputs ==
    { SimInput(Q(10, 1), Q(10, 1), g, DefaultTimestep, InputPositionCorrection,
               << Body(p1[1], p1[2], v1, ZERO, Q(1, 1), Q(1, 1)),
                  Body(p2[1], p2[2], v2, ZERO, Q(1, 1), Q(2, 1)) >>, MaxSteps) :
        g \in Gravities,
        p1 \in { <<Q(3, 2), Q(3, 2)>>, <<Q(-1, 2), Q(3, 2)>> },
        p2 \in { Q(-1, 2), Q(1, 2), Q(3, 2), Q(5, 2), Q(7, 2) }
                 \X { Q(3, 2), Q(5, 2), Q(3, 1) },
        v1 \in { ZERO, Q(3, 1) },
        v2 \in { ZERO, Q(-3, 1) } }

\* Three bodies of different radii and masses, two of them overlapping in
\* several cells, the third listed first or last.
TripleInputs ==
    { SimInput(Q(10, 1), Q(10, 1), g, DefaultTimestep, pc, circles, MaxSteps) :
        g \in Gravities, pc \in Corrections,
        circles \in
          { << Body(Q(4, 1), Q(4, 1), ZERO, ZERO, Q(1, 1), Q(1, 1)),
               Body(Q(9, 2), Q(17, 4), Q(-1, 1), ZERO, Q(1, 2), Q(1, 2)),
               Body(Q(7, 2), Q(7, 2), Q(1, 1), Q(1, 1), Q(3, 4), Q(2, 1)) >>,
            << Body(Q(7, 1), Q(7, 1), ZERO, ZERO, Q(1, 2), Q(1, 1)),
               Body(Q(4, 1), Q(4, 1), ZERO, ZERO, Q(1, 1), Q(1, 1)),
               Body(Q(4, 1), Q(21, 4), ZERO, Q(-2, 1), Q(1, 1), Q(1, 1)) >> } }

\* Two unit-radius bodies whose centres are 2^-8 apart (squared distance of
\* encoding 1), and 2^-7 apart.
CloseInputs ==
    { SimInput(Q(10, 1), Q(10, 1), g, DefaultTimestep, InputPositionCorrection,
               << Body(Q(3, 1), Q(3, 1), ZERO, ZERO, Q(1, 1), Q(1, 1)),
                  Body(Q(3, 1) + dx, Q(3, 1), ZERO, ZERO, Q(1, 1), Q(1, 1)) >>,
               MaxSteps) :
        g \in Gravities, dx \in { Q(1, 256), Q(1, 128) } }

\* Two bodies of radius 0.001 (encoding 66) in a 100 x 100 world, 40 encodings
\* apart, on either side of x = 66: there x / cell_size leaves the Q16.16 range.
SeamInputs ==
    { SimInput(Q(100, 1), Q(100, 1), VecZERO, DefaultTimestep, InputPositionCorrection,
               << Body(Q(66, 1) - 20, Q(1, 1), ZERO, ZERO, 66, Q(1, 1)),
                  Body(Q(66, 1) + 20, Q(1, 1), ZERO, ZERO, 66, Q(1, 1)) >>,
               MaxSteps) }

\* Configurations section 7 of the specification calls invalid: a zero
\* radius, a zero or negative mass, a zero timestep, a zero or negative extent.
InvalidInputs ==
    { SimInput(Q(10, 1), Q(10, 1), Vec2(ZERO, DefaultGravityY), DefaultTimestep,
               InputPositionCorrection,
               << Body(Q(3, 1), Q(1, 2), ZERO, ZERO, rm[1], rm[2]) >>, MaxSteps) :
        rm \in { <<ZERO, Q(1, 1)>>, <<Q(1, 1), ZERO>>, <<Q(1, 1), Q(-1, 1)>>,
                 <<Q(-1, 1), Q(1, 1)>> } }
    \cup
    { SimInput(c[1], c[2], Vec2(ZERO, DefaultGravityY), c[3], InputPositionCorrection,
               << Body(Q(3, 1), Q(3, 1), Q(1, 1), ZERO, Q(1, 1), Q(1, 1)) >>, MaxSteps) :
        c \in { <<ZERO, Q(10, 1), DefaultTimestep>>,
                <<Q(10, 1), Q(-10, 1), DefaultTimestep>>,
                <<Q(10, 1), Q(10, 1), ZERO>>,
                <<Q(10, 1), Q(10, 1), -DefaultTimestep>> } }

\* One body of radius 5 dropped at rest in a 100 x 100 world under the
\* default gravity (tests test_gravity_fall, test_boundary_stop).
FallInputs ==
    { SimInput(Q(100, 1), Q(100, 1), Vec2(ZERO, DefaultGravityY), DefaultTimestep,
               pc, << Body(Q(50, 1), y0, ZERO, ZERO, Q(5, 1), Q(1, 1)) >>, FallSteps) :
        pc \in Corrections, y0 \in { Q(50, 1), Q(10, 1) } }

\* One unit body just above the floor of a 10 x 10 world, moving straight
\* down at 3 or 6 units per second: it penetrates the floor in the first or
\* second tick.
BounceInputs ==
    { SimInput(Q(10, 1), Q(10, 1), g, DefaultTimestep, pc,
               << Body(Q(5, 1), y0, ZERO, vy, Q(1, 1), Q(1, 1)) >>, MaxSteps) :
        g \in Gravities, pc \in Corrections,
        y0 \in { Q(33, 32), Q(17, 16) }, vy \in { Q(-3, 1), Q(-6, 1) } }

\* Two unit bodies of mass 1 on the line y = 5, a small gap apart, approaching
\* each other at 3 or 6 units per second each: they overlap in the first or
\* second tick.
HeadOnInputs ==
    { SimInput(Q(10, 1), Q(10, 1), g, DefaultTimestep, pc,
               << Body(Q(4, 1) - gap, Q(5, 1), v, ZERO, Q(1, 1), Q(1, 1)),
                  Body(Q(6, 1) + gap, Q(5, 1), -v, ZERO, Q(1, 1), Q(1, 1)) >>, MaxSteps) :
        g \in Gravities, pc \in Corrections,
        gap \in { Q(1, 32), Q(1, 16) }, v \in { Q(3, 1), Q(6, 1) } }

Inputs ==
    PairInputs \cup TripleInputs \cup CloseInputs \cup SeamInputs \cup InvalidInputs
        \cup BounceInputs \cup HeadOnInputs

\* A world without bodies, recorded for 0 to MaxSteps steps.
EmptyInputs ==
    { SimInput(Q(10, 1), Q(10, 1), g, DefaultTimestep, InputPositionCorrection, <<>>, n) :
        g \in Gravities, n \in 0..MaxSteps }

\* The inputs of the recorded runs, and the head-on pairs recorded for fewer steps.
RecInputs ==
    Inputs \cup EmptyInputs
        \cup { [inp EXCEPT !.num_steps = n] : inp \in HeadOnInputs, n \in 0..MaxSteps }

-----------------------------------------------------------------------------
(* The state machine: a world built by World::from_input, stepped by       *)
(* World::step, and round-tripped through its serialized form.             *)

VARIABLES
    input,      \* the SimulationInput the world was built from
    world,      \* the World
    straight,   \* the same input stepped as often, never serialized
    steps,      \* completed calls of World::step
    resumes,    \* serialization round trips made
    status,     \* "running", or "panicked" once a step has panicked
    tick,       \* the intermediate values of the last completed step
    rec,        \* the locals of World::run_with_recording
    call,       \* a direct call of one library function: arguments and result
    runner      \* SimulationRunner::run and its proving thread

vars == <<input, world, straight, steps, resumes, status, tick, rec, call, runner>>

\* No step made yet.
NoTick ==
    [before |-> <<>>,
     trace |-> [resolved |-> <<>>, cells |-> <<>>, pairs |-> <<>>,
                circle_collisions |-> <<>>, boundary_collisions |-> <<>>,
                pair_impulses |-> <<>>, boundary_impulses |-> <<>>,
                panics |-> FALSE, circles |-> <<>>]]

\* run_with_recording not called.
NoRec ==
    [pc |-> "idle", input |-> <<>>, states |-> <<>>, max_velocity |-> FloatZero,
     collision_count |-> 0, boundary_hits |-> 0, output |-> <<>>]

\* No library function called directly.
NoCall == [fn |-> "none", args |-> <<>>, done |-> FALSE, result |-> <<>>]

\* The fields of a ProofMetrics.
ProofMetrics(total, user, segments, size, proving, verification, backend) ==
    [total_cycles |-> total, user_cycles |-> user, segments |-> segments,
     proof_size_bytes |-> size, proving_time_ms |-> proving,
     verification_time_ms |-> verification, zkvm_backend |-> backend]

\* SimulationRunner::run not called. An Option is a sequence of at most one
\* element: <<>> is None, <<v>> is Some(v).
NoRunner ==
    [pc |-> "idle", backend |-> "Mock", prove |-> FALSE, visualize |-> FALSE,
     metrics |-> <<>>, thread |-> "none", proof_metrics |-> <<>>, handle |-> <<>>,
     result |-> <<>>]

InitFrom(S) ==
    /\ input \in S
    /\ world = FromInput(input)
    /\ straight = [w |-> FromInput(input), ok |-> TRUE]
    /\ steps = 0
    /\ resumes = 0
    /\ status = "running"
    /\ tick = NoTick
    /\ rec = NoRec
    /\ call = NoCall
    /\ runner = NoRunner

Init == InitFrom(Inputs)

\* The never-serialized world after the step with outcome t.
StraightAfter(s, t) ==
    IF t.panics THEN [s EXCEPT !.ok = FALSE] ELSE [s EXCEPT !.w.circles = t.circles]

\* World::step on the never-serialized world.
StepStraight(s) == IF s.ok THEN StraightAfter(s, StepTrace(s.w)) ELSE s

\* A call of World::step that returns.
Step ==
    /\ status = "running"
    /\ steps < input.num_steps
    /\ tick' = [before |-> world.circles, trace |-> StepTrace(world)]
    /\ ~tick'.trace.panics
    /\ world' = [world EXCEPT !.circles = tick'.trace.circles]
    /\ straight' = StepStraight(straight)
    /\ steps' = steps + 1
    /\ UNCHANGED <<input, resumes, status, rec, call, runner>>

\* A call of World::step that panics on a division by zero.
StepPanic ==
    /\ status = "running"
    /\ steps < input.num_steps
    /\ StepPanics(world)
    /\ status' = "panicked"
    /\ UNCHANGED <<input, world, straight, steps, resumes, tick, rec, call, runner>>

\* The world is serialized and the copy read back takes its place.
Resume ==
    /\ status = "running"
    /\ resumes < MaxResumes
    /\ world' = ImportWorld(ExportWorld(world))
    /\ resumes' = resumes + 1
    /\ UNCHANGED <<input, straight, steps, status, tick, rec, call, runner>>

Next == Step \/ StepPanic \/ Resume

Spec == Init /\ [][Next]_vars

\* Free fall: one body, stepped only.
InitFall == InitFrom(FallInputs)

NextFall == Step

SpecFall == InitFall /\ [][NextFall]_vars

\* run_with_recording starts: the input is rebuilt and states[0] captured.
RecStart ==
    /\ status = "running"
    /\ rec.pc = "idle"
    /\ ~HelperDetectPanics(world)
    /\ rec' = RecordInitial(world, input.num_steps)
    /\ UNCHANGED <<input, world, straight, steps, resumes, status, tick, call, runner>>

\* One iteration of the loop of run_with_recording.
RecStep ==
    /\ status = "running"
    /\ rec.pc = "loop"
    /\ steps < input.num_steps
    /\ tick' = [before |-> world.circles, trace |-> StepTrace(world)]
    /\ ~tick'.trace.panics
    /\ world' = [world EXCEPT !.circles = tick'.trace.circles]
    /\ ~HelperDetectPanics(world')
    /\ ~MetricsPanics(world')
    /\ rec' = RecordStep(rec, world', steps + 1)
    /\ straight' = StepStraight(straight)
    /\ steps' = steps + 1
    /\ UNCHANGED <<input, resumes, status, call, runner>>

\* The world after World::step panics in capture_state or in the metrics.
PanicsAfterStep(w) == HelperDetectPanics(w) \/ MetricsPanics(w)

\* run_with_recording panics on a division by zero: in the first
\* capture_state, in World::step, or in what follows it in the loop.
RecPanic ==
    /\ status = "running"
    /\ \/ rec.pc = "idle" /\ HelperDetectPanics(world)
       \/ /\ rec.pc = "loop"
          /\ steps < input.num_steps
          /\ (StepPanics(world) \/ PanicsAfterStep(StepWorld(world)))
    /\ status' = "panicked"
    /\ UNCHANGED <<input, world, straight, steps, resumes, tick, rec, call, runner>>

\* run_with_recording returns the trace.
RecFinish ==
    /\ status = "running"
    /\ rec.pc = "loop"
    /\ steps = input.num_steps
    /\ rec' = RecordOutput(rec, world, input.num_steps)
    /\ UNCHANGED <<input, world, straight, steps, resumes, status, tick, call, runner>>

\* A recorded run: World::from_input, then World::run_with_recording.
InitRec == InitFrom(RecInputs)

NextRec == RecStart \/ RecStep \/ RecPanic \/ RecFinish

SpecRec == InitRec /\ [][NextRec]_vars

\* The world no direct call touches: empty, never stepped.
IdleInput ==
    SimInput(Q(10, 1), Q(10, 1), VecZERO, DefaultTimestep, InputPositionCorrection, <<>>, 0)

\* A library function is about to be called directly with one of the
\* argument tuples of S.
InitCall(S) ==
    /\ input = IdleInput
    /\ world = FromInput(IdleInput)
    /\ straight = [w |-> FromInput(IdleInput), ok |-> TRUE]
    /\ steps = 0
    /\ resumes = 0
    /\ status = "running"
    /\ tick = NoTick
    /\ rec = NoRec
    /\ call \in S
    /\ runner = NoRunner

\* The pending calls of fn over the argument tuples of S.
Calls(fn, S) ==
    { [fn |-> fn, args |-> a, done |-> FALSE, result |-> <<>>] : a \in S }

\* The call returns r.
Return(r) ==
    /\ ~call.done
    /\ call' = [call EXCEPT !.done = TRUE, !.result = r]
    /\ UNCHANGED <<input, world, straight, steps, resumes, status, tick, rec, runner>>

\* Three bodies that differ in every field, as a caller of apply_impulses
\* may hold them.
CallBody(px, py, vx, vy, radius, mass, restitution, friction) ==
    [SetVelocity(CircleNew(Vec2(px, py), radius, mass), Vec2(vx, vy), DefaultTimestep)
        EXCEPT !.velocity = Vec2(vx, vy), !.restitution = restitution,
               !.friction = friction]

CallCircles ==
    << CallBody(Q(4, 1), Q(5, 1), Q(1, 1), ZERO, Q(1, 1), Q(2, 1), Q(1, 4), Q(1, 8)),
       CallBody(Q(6, 1), Q(5, 1), Q(-1, 1), Q(1, 2), Q(1, 2), Q(1, 1), Q(3, 4), Q(1, 2)),
       CallBody(Q(5, 1), Q(7, 1), ZERO, Q(-3, 1), Q(3, 4), Q(1, 2), HALF, ZERO) >>

\* The length of the longest impulse list passed to apply_impulses.
MaxImpulses == 3

\* Impulses on the first two bodies: small, zero and wrapping deltas.
ImpulseValues ==
    { [idx |-> i, delta_v |-> d[1], delta_pos |-> d[2]] :
        i \in 1..2,
        d \in { << Vec2(Q(1, 1), ZERO), VecZERO >>,
                << VecZERO, Vec2(MaxI32, Q(1, 2)) >>,
                << Vec2(MinI32, -1), Vec2(1, MaxI32) >>,
                << Vec2(Q(-1, 2), Q(3, 1)), Vec2(Q(1, 4), Q(-1, 8)) >> } }

\* The impulse lists of at most MaxImpulses impulses.
ImpulseLists == UNION { [1..n -> ImpulseValues] : n \in 0..MaxImpulses }

\* apply_impulses called directly, as test_head_on_collision does.
CallApplyImpulses ==
    /\ call.fn = "apply_impulses"
    /\ Return(ApplyImpulses(call.args[1], call.args[2]))

InitImpulses == InitCall(Calls("apply_impulses", { <<CallCircles, l>> : l \in ImpulseLists }))

NextImpulses == CallApplyImpulses

SpecImpulses == InitImpulses /\ [][NextImpulses]_vars

\* Offsets between two centers: none, one encoding, the least ones with a
\* squared length of encoding 1, and fractions and multiples of the radii.
DetectOffsets ==
    { ZERO, 1, 256, 257, -256, Q(1, 2), Q(1, 1), Q(-1, 1), Q(3, 2), Q(2, 1) }

\* Body a at (5, 5) and body b at the offset (dx, dy) from it, with the
\* candidate list holding the pair or nothing.
DetectArgs ==
    { << << CircleNew(Vec2(Q(5, 1), Q(5, 1)), ra, ONE),
            CircleNew(Vec2(Q(5, 1) + dx, Q(5, 1) + dy), rb, ONE) >>, pairs >> :
        dx \in DetectOffsets, dy \in DetectOffsets,
        ra \in { HALF, ONE }, rb \in { HALF, ONE },
        pairs \in { <<>>, << <<1, 2>> >>, << <<2, 1>> >> } }

\* spatial::detect_collisions called directly; a division by zero in it
\* panics and nothing is returned.
CallDetectCollisions ==
    /\ call.fn = "detect_collisions"
    /\ Return([panicked |-> DetectPanics(call.args[1], call.args[2]),
               contacts |-> IF DetectPanics(call.args[1], call.args[2]) THEN <<>>
                            ELSE DetectCollisions(call.args[1], call.args[2])])

InitDetect == InitCall(Calls("detect_collisions", DetectArgs))

NextDetect == CallDetectCollisions

SpecDetect == InitDetect /\ [][NextDetect]_vars

\* What a call of Scalar::sqrt did: the initial guess, the number of Newton
\* iterations started, whether the loop was left by break and with which
\* |next - guess|, the value returned, and whether `*self / guess` divided
\* by zero.
SqrtOutcome(panicked, value, first, iterations, early, delta) ==
    [panicked |-> panicked, value |-> value, first |-> first,
     iterations |-> iterations, early |-> early, delta |-> delta]

\* The exit test of Scalar::sqrt with <= in place of <.
RECURSIVE SqrtRunLoop(_, _, _, _)
RECURSIVE SqrtRunTest(_, _, _, _, _)
RECURSIVE SqrtRunTestWithin(_, _, _, _, _)
SqrtRunTestWithin(x, guess, next, n, first) ==
    IF ScalarAbs(ScalarSub(next, guess)) <= 1
    THEN SqrtOutcome(FALSE, guess, first, SqrtIterations - n + 1, TRUE,
                     ScalarAbs(ScalarSub(next, guess)))
    ELSE SqrtRunLoop(x, next, n - 1, first)

\* The loop of Scalar::sqrt with n iterations left.
SqrtRunLoop(x, guess, n, first) ==
    IF n = 0 THEN SqrtOutcome(FALSE, guess, first, SqrtIterations, FALSE, 0)
    ELSE IF guess = 0
         THEN SqrtOutcome(TRUE, ZERO, first, SqrtIterations - n + 1, FALSE, 0)
         ELSE SqrtRunTest(x, guess,
                          ScalarDiv(ScalarAdd(guess, ScalarDiv(x, guess)), TWO), n, first)

\* The exit test of the loop on the iterate next.
SqrtRunTest(x, guess, next, n, first) ==
    IF ScalarAbs(ScalarSub(next, guess)) < 1
    THEN SqrtOutcome(FALSE, guess, first, SqrtIterations - n + 1, TRUE,
                     ScalarAbs(ScalarSub(next, guess)))
    ELSE SqrtRunLoop(x, next, n - 1, first)

\* Scalar::sqrt with what it did on the way.
SqrtRun(x) ==
    IF x <= 0 THEN SqrtOutcome(FALSE, ZERO, ZERO, 0, FALSE, 0)
    ELSE SqrtRunLoop(x, x \div 2, SqrtIterations, x \div 2)

\* Arguments of sqrt: negative, zero, the least encodings, squares, and
\* values up to the largest.
SqrtArgs ==
    { MinI32, Q(-1, 1), -1, 0, 1, 2, 3, 4, 255, 256, Q(1, 4), Q(1, 2), MaxI32 }
        \cup { Q(n * n, 1) : n \in 1..12 } \cup { Q(n, 1) : n \in { 2, 3, 10, 1000, 10000 } }

\* Values of [0, 256) to square.
SquareArgs ==
    { 0, 1, 255, 256, 257, Q(255, 1), Q(256, 1) - 1 }
        \cup { Q(n, 4) : n \in 1..16 } \cup { Q(n, 1) : n \in { 10, 50, 100, 181, 182, 200 } }

\* Operands of (a * b) / b with |a|, |b| <= 100, so that |a * b| <= 10000
\* and no product or quotient leaves the Q16.16 range; b is not zero.
MulDivArgs ==
    { <<a, b>> :
        a \in { Q(-3, 1), -1, 0, 1, 2, 3, Q(1, 2), Q(1, 1), Q(5, 4), 80871, Q(100, 1) },
        b \in { Q(-2, 1), -1, 1, 2, Q(1, 2), Q(1, 1), Q(3, 1), 372114, Q(100, 1) } }

\* Scalar::sqrt called directly.
CallSqrt ==
    /\ call.fn = "sqrt"
    /\ Return(SqrtRun(call.args))

\* (x * x).sqrt()
CallSqrtOfSquare ==
    /\ call.fn = "sqrt_of_square"
    /\ Return(SqrtRun(ScalarMul(call.args, call.args)))

\* (a * b) / b
CallMulThenDiv ==
    /\ call.fn = "mul_then_div"
    /\ Return(ScalarDiv(ScalarMul(call.args[1], call.args[2]), call.args[2]))

InitScalar ==
    InitCall(Calls("sqrt", SqrtArgs) \cup Calls("sqrt_of_square", SquareArgs)
                 \cup Calls("mul_then_div", MulDivArgs))

NextScalar == CallSqrt \/ CallSqrtOfSquare \/ CallMulThenDiv

SpecScalar == InitScalar /\ [][NextScalar]_vars

\* A slot that keeps the first value written to it.
SlotWriteOnce(slot, value) == IF slot = <<>> THEN <<value>> ELSE slot

\* *metrics.lock().unwrap() = Some(value): the slot is replaced under the lock.
SlotWrite(slot, value) == <<value>>

\* SimulationRunner::run is called on an empty world, on close bodies or
\* on bodies at a cell seam: the world is built from the input, and the
\* configuration holds a backend and the two flags.
InitRunner ==
    /\ input \in EmptyInputs \cup CloseInputs \cup SeamInputs
    /\ world = FromInput(input)
    /\ straight = [w |-> FromInput(input), ok |-> TRUE]
    /\ steps = 0
    /\ resumes = 0
    /\ status = "running"
    /\ tick = NoTick
    /\ rec = NoRec
    /\ call = NoCall
    /\ \E backend \in {"Mock", "Risc0", "Sp1"}, prove \in BOOLEAN, visualize \in BOOLEAN :
           runner = [NoRunner EXCEPT !.pc = "run", !.backend = backend,
                                     !.prove = prove, !.visualize = visualize]

\* run_with_recording has returned: the slot is created empty and, with
\* prove set, the proving thread is spawned.
RunSpawn ==
    /\ runner.pc = "run"
    /\ status = "running"
    /\ rec.pc = "done"
    /\ runner' = [runner EXCEPT !.pc = "spawned", !.metrics = <<>>,
                                !.thread = IF runner.prove THEN "start" ELSE "none"]
    /\ UNCHANGED <<input, world, straight, steps, resumes, status, tick, rec, call>>

\* With visualize set, run returns the error that names the visual binary;
\* a spawned proving thread keeps running, detached.
RunVisualize ==
    /\ runner.pc = "spawned"
    /\ runner.visualize
    /\ runner' = [runner EXCEPT !.pc = "returned",
                     !.result = <<[ok |-> FALSE, proof_metrics |-> <<>>,
                                   error |-> "Use the visual binary for visualization"]>>]
    /\ UNCHANGED <<input, world, straight, steps, resumes, status, tick, rec, call>>

\* Without visualize, run joins the proving thread if there is one and
\* returns: Ok with what the thread returned, Ok with None without a thread,
\* the error if the thread panicked.
RunJoin ==
    /\ runner.pc = "spawned"
    /\ ~runner.visualize
    /\ runner.thread \in {"none", "finished", "panicked"}
    /\ runner' = [runner EXCEPT !.pc = "returned",
                     !.result =
                         IF runner.thread = "panicked"
                         THEN <<[ok |-> FALSE, proof_metrics |-> <<>>,
                                 error |-> "Proof generation thread panicked"]>>
                         ELSE <<[ok |-> TRUE, proof_metrics |-> runner.handle,
                                 error |-> ""]>>]
    /\ UNCHANGED <<input, world, straight, steps, resumes, status, tick, rec, call>>

\* generate_proof starts: the slot shows the "generating" status.
ProofStart ==
    /\ runner.thread = "start"
    /\ runner' = [runner EXCEPT !.thread = "match",
                     !.metrics = SlotWrite(runner.metrics,
                         ProofMetrics(0, <<>>, 0, 0, 0, <<>>, "Mock (Generating...)"))]
    /\ UNCHANGED <<input, world, straight, steps, resumes, status, tick, rec, call>>

\* The match on the backend: Mock sleeps and makes up its metrics, Risc0
\* updates the status in the slot before it proves, Sp1 is a todo!() and
\* panics.
ProofMatch ==
    /\ runner.thread = "match"
    /\ \/ /\ runner.backend = "Mock"
          /\ runner' = [runner EXCEPT !.thread = "finish",
                           !.proof_metrics =
                               <<ProofMetrics(100000, <<80000>>, 1, 1024, 2000, <<10>>,
                                              "Mock")>>]
       \/ /\ runner.backend = "Risc0"
          /\ runner' = [runner EXCEPT !.thread = "prove",
                           !.metrics = SlotWrite(runner.metrics,
                               ProofMetrics(0, <<>>, 0, 0, 0, <<>>,
                                            "RISC Zero (Generating...)"))]
       \/ /\ runner.backend = "Sp1"
          /\ runner' = [runner EXCEPT !.thread = "panicked"]
    /\ UNCHANGED <<input, world, straight, steps, resumes, status, tick, rec, call>>

\* The Risc0 arm after the status update: building the executor environment
\* may fail, which panics in unwrap; the prover returns a receipt with its
\* statistics, or an error and the arm falls back to the made-up metrics.
ProofProve ==
    /\ runner.thread = "prove"
    /\ \/ runner' = [runner EXCEPT !.thread = "panicked"]
       \/ \E stats \in {<<65536, 40000, 1, 200000>>, <<2097152, 1900000, 2, 250000>>},
             proving_time \in {3000, 60000}, verification_time \in {15, 40} :
              runner' = [runner EXCEPT !.thread = "finish",
                            !.proof_metrics =
                                <<ProofMetrics(stats[1], <<stats[2]>>, stats[3], stats[4],
                                               proving_time, <<verification_time>>,
                                               "RISC Zero")>>]
       \/ runner' = [runner EXCEPT !.thread = "finish",
                        !.proof_metrics =
                            <<ProofMetrics(100000, <<80000>>, 1, 1024, 2000, <<10>>,
                                           "Mock (RISC Zero error)")>>]
    /\ UNCHANGED <<input, world, straight, steps, resumes, status, tick, rec, call>>

\* The end of generate_proof: the measured time since its start replaces
\* proving_time_ms, the slot takes a clone of the final metrics, and the
\* thread returns them.
ProofFinish ==
    /\ runner.thread = "finish"
    /\ \E elapsed \in {5000, 61000} :
           runner' = [runner EXCEPT
               !.thread = "finished",
               !.metrics = SlotWrite(runner.metrics,
                   [runner.proof_metrics[1] EXCEPT !.proving_time_ms = elapsed]),
               !.handle = <<[runner.proof_metrics[1] EXCEPT !.proving_time_ms = elapsed]>>]
    /\ UNCHANGED <<input, world, straight, steps, resumes, status, tick, rec, call>>

\* A run of the runner: the recording on the calling thread, then the
\* steps of run interleaved with those of the proving thread.
SpecRunner ==
    InitRunner /\ [][\/ RecStart \/ RecStep \/ RecPanic \/ RecFinish
                     \/ RunSpawn \/ RunVisualize \/ RunJoin
                     \/ ProofStart \/ ProofMatch \/ ProofProve \/ ProofFinish]_vars

TypeOK ==
    /\ steps \in 0..input.num_steps
    /\ status \in {"running", "panicked"}
    /\ Len(world.circles) = Len(input.circles)

-----------------------------------------------------------------------------
(* Properties.                                                             *)

\* The configurations section 7 of the specification calls valid.
ValidConfig(inp) ==
    /\ inp.world_width > ZERO
    /\ inp.world_height > ZERO
    /\ inp.timestep > ZERO
    /\ \A i \in 1..Len(inp.circles) :
           inp.circles[i].radius > ZERO /\ inp.circles[i].mass > ZERO

\* The elements of a sequence.
Range(seq) == { seq[k] : k \in 1..Len(seq) }

\* Exact comparison of squares of 31-bit magnitudes: a natural number is a
\* little-endian sequence of base-4096 digits.
Magnitude(n) == IF n < 0 THEN -n ELSE n

SquareCoefficients(n) ==
    << (n % 4096) * (n % 4096),
       2 * (n % 4096) * ((n \div 4096) % 4096),
       2 * (n % 4096) * (n \div 16777216)
           + ((n \div 4096) % 4096) * ((n \div 4096) % 4096),
       2 * ((n \div 4096) % 4096) * (n \div 16777216),
       (n \div 16777216) * (n \div 16777216) >>

RECURSIVE Normalize(_, _, _)
Normalize(c, k, carry) ==
    IF k > Len(c) THEN <<carry>>
    ELSE <<(c[k] + carry) % 4096>> \o Normalize(c, k + 1, (c[k] + carry) \div 4096)

RECURSIVE DigitsLeq(_, _, _)
DigitsLeq(a, b, k) ==
    IF k = 0 THEN TRUE
    ELSE IF a[k] # b[k] THEN a[k] < b[k]
    ELSE DigitsLeq(a, b, k - 1)

\* dx^2 + dy^2 <= s^2 over the integers.
SumOfSquaresLeq(dx, dy, s) ==
    DigitsLeq(Normalize([k \in 1..5 |-> SquareCoefficients(Magnitude(dx))[k]
                                           + SquareCoefficients(Magnitude(dy))[k]], 1, 0),
              Normalize(SquareCoefficients(Magnitude(s)), 1, 0), 6)

\* The closed disks of two circles intersect: centre distance <= r_a + r_b,
\* computed exactly on the encodings.
DisksIntersect(circle_a, circle_b) ==
    SumOfSquaresLeq(circle_b.position.x - circle_a.position.x,
                    circle_b.position.y - circle_a.position.y,
                    circle_a.radius + circle_b.radius)

\* The cells of the last tick's grid that hold both bodies of a pair.
SharedCells(pair) ==
    { c \in DOMAIN tick.trace.cells :
        pair[1] \in Range(tick.trace.cells[c]) /\ pair[2] \in Range(tick.trace.cells[c]) }

\* The last tick detected no contact of either kind.
NoContacts ==
    tick.trace.circle_collisions = <<>> /\ tick.trace.boundary_collisions = <<>>

\* C2: checkpoint-resume equivalence.  A world built from a valid input,
\* stepped, exported, re-imported and stepped on has the position encodings
\* of the world stepped as often without interruption.
ResumeEquivalence ==
    (ValidConfig(input) /\ status = "running" /\ straight.ok) =>
        \A i \in 1..Len(world.circles) :
            world.circles[i].position = straight.w.circles[i].position

\* C3: the core never panics.  On a world with positive radii, masses,
\* timestep and bounds no call of World::step divides by zero.
NeverPanics == ValidConfig(input) => status # "panicked"

\* C4: invalid configuration is rejected at construction.  World::step never
\* runs on a world built from an input with a non-positive radius, mass,
\* timestep or extent.
InvalidConfigRejected == ~ValidConfig(input) => (steps = 0 /\ status = "running")

\* C5: broad-phase completeness.  Every pair a < b of the circles handed to
\* the collision pass whose closed disks intersect is in the list
\* get_collision_pairs returns for the grid built with cell_size = 2 * max radius.
BroadPhaseComplete ==
    \A a, b \in 1..Len(tick.trace.resolved) :
        (a < b /\ DisksIntersect(tick.trace.resolved[a], tick.trace.resolved[b]))
            => <<a, b>> \in Range(tick.trace.pairs)

\* C6: canonical pair ordering.  Every pair get_collision_pairs returns and
\* every Collision handed to resolve_collisions inside step has idx_a < idx_b.
CanonicalPairOrder ==
    /\ \A k \in 1..Len(tick.trace.pairs) :
           tick.trace.pairs[k][1] < tick.trace.pairs[k][2]
    /\ \A k \in 1..Len(tick.trace.circle_collisions) :
           tick.trace.circle_collisions[k].idx_a < tick.trace.circle_collisions[k].idx_b

\* A tick with three bodies, several candidate pairs and a contact.
CanonicalPairOrderWitness ==
    /\ Len(tick.trace.resolved) = 3
    /\ Len(tick.trace.pairs) >= 2
    /\ tick.trace.circle_collisions # <<>>

\* C7: no duplicate pairs.  The list get_collision_pairs returns holds no pair
\* twice, so a pair yields at most one Collision and at most two impulses in
\* a tick.
NoDuplicatePairs ==
    /\ \A j, k \in 1..Len(tick.trace.pairs) :
           j # k => tick.trace.pairs[j] # tick.trace.pairs[k]
    /\ \A j, k \in 1..Len(tick.trace.circle_collisions) :
           j # k => <<tick.trace.circle_collisions[j].idx_a,
                      tick.trace.circle_collisions[j].idx_b>>
                    # <<tick.trace.circle_collisions[k].idx_a,
                        tick.trace.circle_collisions[k].idx_b>>
    /\ Len(tick.trace.circle_collisions) <= Len(tick.trace.pairs)
    /\ Len(tick.trace.pair_impulses) <= 2 * Len(tick.trace.circle_collisions)

\* A tick in which two bodies in contact share several grid cells and get
\* one impulse each.
NoDuplicatePairsWitness ==
    /\ Len(tick.trace.pair_impulses) = 2
    /\ \E k \in 1..Len(tick.trace.pairs) :
           /\ Cardinality(SharedCells(tick.trace.pairs[k])) >= 2
           /\ tick.trace.circle_collisions[1].idx_a = tick.trace.pairs[k][1]
           /\ tick.trace.circle_collisions[1].idx_b = tick.trace.pairs[k][2]

\* C8: body identity is stable.  After any number of steps the world holds as
\* many bodies as were added, and body i has the radius and mass it was added
\* with and the restitution and friction Circle::new gave it.
BodyIdentityStable ==
    /\ Len(world.circles) = Len(input.circles)
    /\ \A i \in 1..Len(world.circles) :
           /\ world.circles[i].radius = input.circles[i].radius
           /\ world.circles[i].mass = input.circles[i].mass
           /\ world.circles[i].restitution = CircleRestitution
           /\ world.circles[i].friction = CircleFriction

\* Two bodies of different masses after several steps, the last of which
\* applied contact impulses.
BodyIdentityStableWitness ==
    /\ steps >= 2
    /\ tick.trace.pair_impulses # <<>>
    /\ world.circles[1].mass # world.circles[2].mass

\* C9: free fall.  A body dropped at rest under the default gravity that has
\* come to rest on the floor (a floor contact in a tick that leaves its
\* position where it was) has position.y equal to its radius, bit for bit.
FreeFallRestsAtRadius ==
    (/\ steps > 0
     /\ tick.trace.boundary_collisions # <<>>
     /\ world.circles[1].position = tick.before[1].position)
        => world.circles[1].position.y = world.circles[1].radius

\* C10: horizontal momentum.  With zero gravity a tick without contacts
\* leaves position.x - old_position.x of every body as it was, velocity.x is
\* that displacement over the timestep, and it is the velocity.x of the
\* tick before.
HorizontalMomentum ==
    (steps > 0 /\ world.gravity = VecZERO /\ NoContacts) =>
        \A i \in 1..Len(world.circles) :
            /\ ScalarSub(world.circles[i].position.x, world.circles[i].old_position.x)
                   = ScalarSub(tick.before[i].position.x, tick.before[i].old_position.x)
            /\ world.circles[i].velocity.x
                   = ScalarDiv(ScalarSub(tick.before[i].position.x,
                                         tick.before[i].old_position.x), world.timestep)
            /\ steps >= 2 => world.circles[i].velocity.x = tick.before[i].velocity.x

\* A second or later tick without contacts under zero gravity with a body
\* moving along x.
HorizontalMomentumWitness ==
    /\ steps >= 2
    /\ world.gravity = VecZERO
    /\ NoContacts
    /\ \E i \in 1..Len(world.circles) :
           world.circles[i].position.x # world.circles[i].old_position.x

\* The velocity a circle's Verlet state projects to: (position - old_position) / dt.
Projected(circle, dt) == Vec2Div(Vec2Sub(circle.position, circle.old_position), dt)

\* The boundaries circle idx touched in the last tick.
BoundariesHit(idx) ==
    { tick.trace.boundary_collisions[k].boundary :
        k \in { j \in 1..Len(tick.trace.boundary_collisions) :
                  tick.trace.boundary_collisions[j].idx = idx } }

\* Circle idx was in a circle-circle contact in the last tick.
InCircleContact(idx) ==
    \E k \in 1..Len(tick.trace.circle_collisions) :
        tick.trace.circle_collisions[k].idx_a = idx
            \/ tick.trace.circle_collisions[k].idx_b = idx

\* The last tick is the one in which circle idx, moving straight down faster
\* than the velocity threshold, first penetrated the floor, touching nothing else.
FirstFloorHit(idx) ==
    /\ steps > 0
    /\ ValidConfig(input)
    /\ tick.before[idx].position.x = tick.before[idx].old_position.x
    /\ Projected(tick.before[idx], world.timestep).y < -DefaultVelocityThreshold
    /\ tick.before[idx].position.y >= tick.before[idx].radius
    /\ BoundariesHit(idx) = {"Bottom"}
    /\ ~InCircleContact(idx)

\* C11: boundary bounce.  The tick in which a body moving straight down first
\* penetrates the floor leaves it with an upward velocity (v_y > 0) and with
\* position.y >= radius.
BoundaryBounce ==
    \A i \in 1..Len(world.circles) :
        FirstFloorHit(i) =>
            /\ world.circles[i].velocity.y > ZERO
            /\ world.circles[i].position.y >= world.circles[i].radius

\* The last tick is the one in which two equal-mass bodies approaching each
\* other along the x-axis at equal speeds were first found overlapping.
FirstHeadOnHit(a, b) ==
    /\ steps > 0
    /\ ValidConfig(input)
    /\ a < b
    /\ tick.before[a].mass = tick.before[b].mass
    /\ tick.before[a].position.y = tick.before[b].position.y
    /\ tick.before[a].position.y = tick.before[a].old_position.y
    /\ tick.before[b].position.y = tick.before[b].old_position.y
    /\ tick.before[a].position.x < tick.before[b].position.x
    /\ Projected(tick.before[a], world.timestep).x > DefaultVelocityThreshold
    /\ Projected(tick.before[b], world.timestep).x
           = ScalarNeg(Projected(tick.before[a], world.timestep).x)
    /\ ~DisksIntersect(tick.before[a], tick.before[b])
    /\ \E k \in 1..Len(tick.trace.circle_collisions) :
           /\ tick.trace.circle_collisions[k].idx_a = a
           /\ tick.trace.circle_collisions[k].idx_b = b
    /\ BoundariesHit(a) = {}
    /\ BoundariesHit(b) = {}

\* C12: head-on pair collision.  The tick in which two equal-mass bodies
\* approaching along the x-axis at (+v, 0) and (-v, 0) are first found
\* overlapping leaves body a with v_x < 0, body b with v_x > 0, of equal
\* magnitudes.
HeadOnCollision ==
    \A a, b \in 1..Len(world.circles) :
        FirstHeadOnHit(a, b) =>
            /\ world.circles[a].velocity.x < ZERO
            /\ world.circles[b].velocity.x > ZERO
            /\ world.circles[a].velocity.x = ScalarNeg(world.circles[b].velocity.x)
\* C13: a recording of N steps holds N + 1 states, states[k].step = k,
\* states[0] is the snapshot of the world before any step and the last state
\* the snapshot of the world after the step that preceded it; the output has
\* steps_executed = N and final_state = states[N].
RecordingShape ==
    /\ rec.pc # "idle" =>
          /\ Len(rec.states) = steps + 1
          /\ \A k \in 1..Len(rec.states) : rec.states[k].step = k - 1
          /\ rec.states[1] = CaptureState(FromInput(input), 0)
          /\ rec.states[steps + 1] = CaptureState(world, steps)
    /\ rec.pc = "done" =>
          /\ Len(rec.states) = input.num_steps + 1
          /\ rec.output.steps_executed = input.num_steps
          /\ rec.output.final_state = rec.states[input.num_steps + 1]

RecordingShapeWitness ==
    /\ rec.pc = "done"
    /\ input.num_steps = MaxSteps
    /\ Len(world.circles) = 2
    /\ rec.states[1].circles # rec.states[2].circles
    /\ rec.output.final_state.step = MaxSteps

\* The sum of field f over the snapshots from index k on.
RECURSIVE FrameSum(_, _, _)
FrameSum(states, f, k) ==
    IF k > Len(states) THEN 0 ELSE states[k][f] + FrameSum(states, f, k + 1)

\* C14: in a returned trace the frame_collisions of the states sum to
\* metrics.collision_count and the frame_boundary_hits to metrics.boundary_hits.
FrameCountsSumToMetrics ==
    rec.pc = "done" =>
        /\ FrameSum(rec.states, "frame_collisions", 1) = rec.output.metrics.collision_count
        /\ FrameSum(rec.states, "frame_boundary_hits", 1) = rec.output.metrics.boundary_hits

\* C15: recording an empty world for zero steps does not fail and returns
\* one state, with collision_count, boundary_hits, max_velocity and
\* total_energy all zero.
EmptyRecording ==
    (input.circles = <<>> /\ input.num_steps = 0) =>
        /\ status = "running"
        /\ rec.pc = "done" =>
              /\ Len(rec.states) = 1
              /\ rec.output.metrics.collision_count = 0
              /\ rec.output.metrics.boundary_hits = 0
              /\ rec.output.metrics.max_velocity = FloatZero
              /\ rec.output.metrics.total_energy = FloatZero

EmptyRecordingWitness ==
    /\ input.circles = <<>>
    /\ input.num_steps = 0
    /\ rec.pc = "done"
    /\ rec.states[1].circles = <<>>

\* C19: the velocity a recorded state reports for a body is the projection
\* (position - old_position) / timestep of the body when the state was
\* captured, states[0] of a world built by from_input included.
RecordedVelocityIsProjection ==
    rec.pc # "idle" =>
        \A i \in 1..Len(world.circles) :
            rec.states[steps + 1].circles[i].velocity
                = ToFloat2(Projected(world.circles[i], world.timestep))

\* The world the RISC Zero guest builds: World::new(width, height) and the
\* input's circles, their velocities seeded with the world's timestep.
GuestWorld(inp) ==
    AddInputCircles(WorldNew(inp.world_width, inp.world_height), inp.circles, 1)

\* The guest's loop of world.step(), n iterations left.
RECURSIVE GuestSteps(_, _)
GuestSteps(s, n) == IF n = 0 THEN s ELSE GuestSteps(StepStraight(s), n - 1)

\* The bits of the positions, as the guest collects them.
FinalPositions(circles) ==
    [i \in 1..Len(circles) |-> <<circles[i].position.x, circles[i].position.y>>]

\* The journal the guest commits after running s, without the hash of the
\* positions; committed is FALSE when a step panicked.
GuestOutput(s, n) ==
    [committed |-> s.ok, final_positions |-> FinalPositions(s.w.circles),
     steps_executed |-> n]

\* The guest's main on the input.
GuestMain(inp) ==
    GuestOutput(GuestSteps([w |-> GuestWorld(inp), ok |-> TRUE], inp.num_steps),
                inp.num_steps)

\* The journal out agrees with the host world w after n steps.
GuestMatches(out, w, n) ==
    /\ out.committed
    /\ out.final_positions = FinalPositions(w.circles)
    /\ out.steps_executed = n

\* C16: the final positions and step count the guest commits for an input
\* are those of World::from_input(input) stepped num_steps times on the host.
GuestAgreesWithHost ==
    (steps = input.num_steps /\ straight.ok) =>
        GuestMatches(GuestMain(input), straight.w, steps)

\* C17: the velocity resolve_collisions and resolve_boundary_collisions read
\* for a body in contact is (position - old_position) / timestep of the
\* position and old_position the body has when the resolver runs.
ResolverVelocityIsProjection ==
    steps > 0 =>
        \A i \in 1..Len(tick.trace.resolved) :
            (InCircleContact(i) \/ BoundariesHit(i) # {}) =>
                tick.trace.resolved[i].velocity
                    = Projected(tick.trace.resolved[i], world.timestep)

\* The impulses applied in the last tick.
AppliedImpulses == tick.trace.pair_impulses \o tick.trace.boundary_impulses

\* C18: after every completed step the cached velocity of each body is
\* (position - old_position) / timestep of its position and old_position
\* after the step.
CachedVelocityIsProjection ==
    steps > 0 =>
        \A i \in 1..Len(world.circles) :
            world.circles[i].velocity = Projected(world.circles[i], world.timestep)

CachedVelocityIsProjectionWitness ==
    /\ steps > 0
    /\ \E k \in 1..Len(AppliedImpulses) : AppliedImpulses[k].delta_v # VecZERO
    /\ \E i \in 1..Len(world.circles) :
          /\ world.circles[i].velocity # VecZERO
          /\ world.circles[i].velocity = Projected(world.circles[i], world.timestep)
          /\ world.circles[i].velocity # tick.trace.resolved[i].velocity

\* The impulses with every delta_v replaced by zero.
ZeroDeltaV(impulses) ==
    [k \in 1..Len(impulses) |-> [impulses[k] EXCEPT !.delta_v = VecZERO]]

\* The circles World::step would leave had the collision pass t applied its
\* impulses without their delta_v.
StepWithoutDeltaV(t, dt) ==
    [i \in 1..Len(t.resolved) |->
        UpdateVelocity(ApplyImpulses(t.resolved,
                           ZeroDeltaV(t.pair_impulses \o t.boundary_impulses))[i], dt)]

\* Restitution coefficients other than the input's 0.8.
OtherRestitutions == { ZERO, ONE }

VerletPosition(circle, dv) ==
    Vec2Add(Vec2Sub(Vec2Mul(circle.position, TWO), circle.old_position), dv)

\* C21 as stated: step 1 of World::step gives each body the position
\* 2 * position - old_position + gravity * (dt * dt), the gravity multiplied
\* by the squared timestep, and sets old_position to the position it held.
VerletSquaredTimestep ==
    steps > 0 =>
        \A i \in 1..Len(tick.before) :
            /\ tick.trace.resolved[i].position
                  = VerletPosition(tick.before[i],
                        Vec2Mul(world.gravity, ScalarMul(world.timestep, world.timestep)))
            /\ tick.trace.resolved[i].old_position = tick.before[i].position

\* C21 amended: the gravity term is (gravity * dt) * dt, the gravity
\* multiplied by the timestep and that product by the timestep again.
VerletIntegration ==
    steps > 0 =>
        \A i \in 1..Len(tick.before) :
            /\ tick.trace.resolved[i].position
                  = VerletPosition(tick.before[i],
                        Vec2Mul(Vec2Mul(world.gravity, world.timestep), world.timestep))
            /\ tick.trace.resolved[i].old_position = tick.before[i].position

VerletIntegrationWitness ==
    /\ steps > 1
    /\ Vec2Mul(Vec2Mul(world.gravity, world.timestep), world.timestep)
          # Vec2Mul(world.gravity, ScalarMul(world.timestep, world.timestep))
    /\ \E i \in 1..Len(tick.before) :
          /\ tick.before[i].position # tick.before[i].old_position
          /\ tick.trace.resolved[i].old_position = tick.before[i].position
          /\ tick.trace.resolved[i].position # tick.before[i].position

\* The bijections of 1..n.
Perms(n) == { p \in [1..n -> 1..n] : \A i, j \in 1..n : p[i] = p[j] => i = j }

\* The list seq reordered by p.
Permuted(seq, p) == [k \in 1..Len(seq) |-> seq[p[k]]]

\* C22: apply_impulses returns the same bodies for every permutation of the
\* impulse list.
ImpulseOrderIndependent ==
    (call.fn = "apply_impulses" /\ call.done) =>
        \A p \in Perms(Len(call.args[2])) :
            ApplyImpulses(call.args[1], Permuted(call.args[2], p)) = call.result

ImpulseOrderIndependentWitness ==
    /\ call.fn = "apply_impulses"
    /\ call.done
    /\ Len(call.args[2]) = MaxImpulses
    /\ call.args[2][1].idx = call.args[2][2].idx
    /\ call.args[2][1].delta_v # call.args[2][2].delta_v
    /\ call.args[2][2].idx = call.args[2][3].idx
    /\ call.args[2][2].delta_pos # call.args[2][3].delta_pos
    /\ call.result[call.args[2][1].idx].velocity # call.args[1][call.args[2][1].idx].velocity

\* The sum of field f of the impulses from k on that target body idx.
RECURSIVE DeltaSum(_, _, _, _)
DeltaSum(impulses, idx, f, k) ==
    IF k > Len(impulses) THEN VecZERO
    ELSE IF impulses[k].idx = idx
         THEN Vec2Add(impulses[k][f], DeltaSum(impulses, idx, f, k + 1))
         ELSE DeltaSum(impulses, idx, f, k + 1)

\* Body idx is the target of an impulse of the list.
Targeted(impulses, idx) == \E k \in 1..Len(impulses) : impulses[k].idx = idx

\* C23: apply_impulses returns one body per input body in index order, with
\* the accumulated delta_pos added to position and the accumulated delta_v to
\* velocity, old_position, radius, mass, restitution and friction unchanged,
\* and a body no impulse targets unchanged.
ApplyImpulsesFrame ==
    (call.fn = "apply_impulses" /\ call.done) =>
        /\ Len(call.result) = Len(call.args[1])
        /\ \A i \in 1..Len(call.args[1]) :
              /\ call.result[i].position
                    = Vec2Add(call.args[1][i].position,
                              DeltaSum(call.args[2], i, "delta_pos", 1))
              /\ call.result[i].velocity
                    = Vec2Add(call.args[1][i].velocity,
                              DeltaSum(call.args[2], i, "delta_v", 1))
              /\ call.result[i].old_position = call.args[1][i].old_position
              /\ call.result[i].radius = call.args[1][i].radius
              /\ call.result[i].mass = call.args[1][i].mass
              /\ call.result[i].restitution = call.args[1][i].restitution
              /\ call.result[i].friction = call.args[1][i].friction
              /\ ~Targeted(call.args[2], i) => call.result[i] = call.args[1][i]

ApplyImpulsesFrameWitness ==
    /\ call.fn = "apply_impulses"
    /\ call.done
    /\ Len(call.args[2]) >= 2
    /\ \A k \in 1..Len(call.args[2]) : call.args[2][k].idx = 1
    /\ call.result[1].position # call.args[1][1].position
    /\ call.result[1].velocity # call.args[1][1].velocity
    /\ call.result[2] = call.args[1][2]

\* The circles with other restitution and friction fields: c[1] and c[2] on
\* the bodies of odd index, c[2] and c[1] on those of even index.
VaryCoefficients(circles, c) ==
    [i \in 1..Len(circles) |->
        [circles[i] EXCEPT !.restitution = c[((i - 1) % 2) + 1],
                           !.friction = c[(i % 2) + 1]]]

\* Coefficients other than Circle::new's 0.5 and 0.1.
OtherCoefficients == { <<ZERO, ONE>>, <<ONE, HALF>> }

\* Position and old_position of every body, and the cached velocity the
\* next step starts from.
Kinematics(circles) ==
    [i \in 1..Len(circles) |->
        [position |-> circles[i].position, old_position |-> circles[i].old_position,
         velocity |-> circles[i].velocity]]

\* C24: a step of the world with other restitution and friction fields on its
\* bodies leaves every body the position and old_position (and cached
\* velocity) the step of the world itself leaves, so the two worlds stay
\* alike after any number of steps.
BodyCoefficientsIgnored ==
    [][steps' = steps + 1 =>
          \A c \in OtherCoefficients :
              Kinematics(StepTrace([world EXCEPT
                             !.circles = VaryCoefficients(world.circles, c)]).circles)
                  = Kinematics(world'.circles)]_vars

BodyCoefficientsIgnoredWitness ==
    /\ steps >= 2
    /\ tick.trace.pair_impulses # <<>>
    /\ tick.trace.boundary_impulses # <<>>
    /\ \A i \in 1..Len(world.circles) :
          /\ world.circles[i].restitution = CircleRestitution
          /\ world.circles[i].friction = CircleFriction
          /\ world.circles[i].position # tick.trace.resolved[i].position

\* The contacts the narrow phase is to emit for the candidate pair (a, b): the
\* squared center distance d2, none when d2 >= (r_a + r_b)^2 or d2 = 0, and
\* otherwise one contact built from d = sqrt(d2).
ContactFrom(circles, a, b, delta, d) ==
    << [idx_a |-> a, idx_b |-> b, normal |-> Vec2Div(delta, d),
        depth |-> ScalarSub(ScalarAdd(circles[a].radius, circles[b].radius), d),
        contact |-> Vec2Add(circles[a].position,
                            Vec2Mul(Vec2Div(delta, d), circles[a].radius))] >>

ContactWithin(circles, a, b, delta, d2, r_sum) ==
    IF d2 >= ScalarMul(r_sum, r_sum) \/ d2 = ZERO THEN <<>>
    ELSE ContactFrom(circles, a, b, delta, ScalarSqrt(d2))

ContactOfPair(circles, a, b) ==
    ContactWithin(circles, a, b,
                  Vec2Sub(circles[b].position, circles[a].position),
                  LengthSquared(Vec2Sub(circles[b].position, circles[a].position)),
                  ScalarAdd(circles[a].radius, circles[b].radius))

\* C25: detect_collisions returns, for each candidate pair, no contact when
\* d2 >= (r_a + r_b)^2 or d2 = 0 and otherwise exactly one contact with
\* d = sqrt(d2), normal = delta / d, depth = r_a + r_b - d and
\* contact = pos_a + normal * r_a; it never divides by zero.
NarrowPhaseContacts ==
    (call.fn = "detect_collisions" /\ call.done) =>
        /\ ~call.result.panicked
        /\ Len(call.args[2]) = 0 => call.result.contacts = <<>>
        /\ Len(call.args[2]) = 1 =>
              call.result.contacts
                  = ContactOfPair(call.args[1], call.args[2][1][1], call.args[2][1][2])

\* C26: the state recorded after a tick reports as frame_collisions the
\* number of circle-circle contacts resolve_all_collisions detected in that
\* tick, and as frame_boundary_hits the number of wall contacts it detected.
FrameCountsAreResolvedContacts ==
    (rec.pc # "idle" /\ steps > 0) =>
        /\ rec.states[steps + 1].frame_collisions = Len(tick.trace.circle_collisions)
        /\ rec.states[steps + 1].frame_boundary_hits = Len(tick.trace.boundary_collisions)

\* C27 as stated: Scalar::sqrt returns zero for a non-positive input; for a
\* positive one it starts from the input shifted right by one, performs at
\* most 8 Newton iterations and leaves the loop early only when two
\* successive iterates differ by exactly encoding 1.
SqrtExitsOnUnitDifference ==
    (call.fn = "sqrt" /\ call.done) =>
        /\ call.args <= 0 => (~call.result.panicked /\ call.result.value = 0)
        /\ call.args > 0 =>
              /\ call.result.first = call.args \div 2
              /\ call.result.iterations <= 8
              /\ call.result.early => call.result.delta = 1

\* C27 amended: the loop is left early only when two successive iterates
\* are equal (differ by less than encoding 1).
SqrtExitsOnEqualIterates ==
    (call.fn = "sqrt" /\ call.done) =>
        /\ call.args <= 0 => (~call.result.panicked /\ call.result.value = 0)
        /\ call.args > 0 =>
              /\ call.result.first = call.args \div 2
              /\ call.result.iterations <= 8
              /\ call.result.early => call.result.delta = 0

SqrtExitsOnEqualIteratesWitness ==
    /\ call.fn = "sqrt"
    /\ call.done
    /\ call.args > 0
    /\ ~call.result.panicked
    /\ call.result.early
    /\ call.result.iterations > 2
    /\ call.result.iterations < 8
    /\ call.result.value # call.result.first

\* C28: for every x of [0, 256) the encoding of sqrt(x * x) differs from the
\* encoding of x by at most 1.
SqrtOfSquareIsNear ==
    (call.fn = "sqrt_of_square" /\ call.done) =>
        /\ ~call.result.panicked
        /\ call.result.value - call.args <= 1
        /\ call.args - call.result.value <= 1

\* C29: for b # 0 and no intermediate overflow, (a * b) / b has the encoding
\* of a.
MulThenDivIsIdentity ==
    (call.fn = "mul_then_div" /\ call.done) => call.result = call.args[1]

\* The 16 bits of the 64-bit product of the encodings a and b that the shift
\* of Mul drops, from the bytes a1, a0 and b1, b0 of the low limbs.
DroppedBytes(a1, a0, b1, b0) == (a0 * b0 + 256 * ((a1 * b0 + a0 * b1) % 256)) % 65536

DroppedBits(a, b) ==
    DroppedBytes((a % 65536) \div 256, a % 256, (b % 65536) \div 256, b % 256)

\* C29 amended: for b # 0 and no intermediate overflow, (a * b) / b has the
\* encoding of a whenever the shift of the product a * b drops no set bit.
MulThenDivOfExactProduct ==
    (call.fn = "mul_then_div" /\ call.done /\ DroppedBits(call.args[1], call.args[2]) = 0) =>
        call.result = call.args[1]

MulThenDivOfExactProductWitness ==
    /\ call.fn = "mul_then_div"
    /\ call.done
    /\ DroppedBits(call.args[1], call.args[2]) = 0
    /\ call.args[1] = Q(5, 4)
    /\ call.args[2] = Q(-2, 1)
    /\ call.result = Q(5, 4)

\* The slot holds a "generating" status: a snapshot of zeros under a name
\* that says so.
IsGenerating(slot) ==
    /\ slot # <<>>
    /\ slot[1].total_cycles = 0
    /\ slot[1].zkvm_backend \in {"Mock (Generating...)", "RISC Zero (Generating...)"}

====
